---- MODULE Spec2Model ----
(***************************************************************************)
(* State-machine models of three stress-ng stressors:                      *)
(*   - stress-misaligned.c : method table, "all" dispatcher, fault handler *)
(*   - stress-rawsock.c    : sender/receiver pairs and the readiness       *)
(*                           counter guarded by rawsock_lock               *)
(*   - stress-cacheline.c  : primary/secondary worker loops and the exit   *)
(*                           status of stress_cacheline                    *)
(* Each stressor has its own specification (SpecMisaligned, SpecRawsock,   *)
(* SpecCacheline); the variables of the other stressors stay at their      *)
(* initial values.                                                         *)
(***************************************************************************)
EXTENDS Integers, FiniteSets, Sequences, TLC

\* ---------------------------------------------------------------- bounds
\* number of sub-method entries that follow "all" in the method table
NumSub == 3
\* number of rawsock worker instances (args->num_instances)
NumInstances == 2
\* packets after which a sender's sendto is no longer followed
MaxSent == 1
\* failed calls of fork in a row that are followed
MaxRetry == 2
\* batches of one call of a cacheline routine that are followed (1024 in
\* the source)
NumBatch == 1
\* the padding length stress_dirmany_create starts *max_len with (256 in
\* the source)
MaxLen == 3
\* files of one create phase that are followed
MaxFiles == 4
\* outer iterations of stress_dirmany that are followed
MaxIter == 2

\* ------------------------------------------------------- shared constants
EXIT_SUCCESS == "EXIT_SUCCESS"
EXIT_FAILURE == "EXIT_FAILURE"
EXIT_NO_RESOURCE == "EXIT_NO_RESOURCE"

\* handled_signum before any signal was handled (-1 in the source)
NoSignal == "-1"
FaultSignals == {"SIGBUS", "SIGILL", "SIGSEGV"}

VARIABLES
    \* ---- stress-misaligned.c
    disabled,           \* stress_misaligned_methods[i].disabled
    exercised,          \* stress_misaligned_methods[i].exercised
    all_exercised,      \* static bool exercised of stress_misaligned_all
    current_method,     \* index of *current_method
    misaligned_method,  \* index of the configured method (0 is "all")
    handled_signum,     \* last signal seen by the handler
    info,               \* loop cursor of stress_misaligned_all
    mpc,                \* position of the worker
    mrc,                \* rc of stress_misaligned
    mkeep,              \* keep_stressing(args) of the worker
    returned,           \* history: entries whose routine returned normally
    pass_ran,           \* history: a child returned in the current "all" pass
    pass_done,          \* history: the children that returned in that pass
    reported,           \* names printed by stress_misaligned_exercised
    m_top_keep,         \* history: keep_stressing when the worker came to
                        \* the top of the current iteration of its loop
    m_faults            \* history: the faults trapped in this run

mvars == <<disabled, exercised, all_exercised, current_method,
           misaligned_method, handled_signum, info, mpc, mrc, mkeep,
           returned, pass_ran, pass_done, reported, m_top_keep,
           m_faults>>

VARIABLES
    \* ---- stress-rawsock.c, one receiver (parent) and one sender (child)
    \* per instance
    ready,              \* g_shared->rawsock.ready
    rawsock_lock,       \* owner of rawsock_lock
    ppc,                \* position of each parent
    cpc,                \* position of each child
    pkeep,              \* keep_stressing(args) as each parent sees it
                        \* (FALSE once stress_rawsock has returned)
    ckeep,              \* keep_stressing(args) as each child sees it
                        \* (FALSE once the child process is gone)
    p_load,             \* value a parent loaded for ready++
    pfd,                \* fd of each parent
    rrc,                \* rc of each parent
    cstatus,            \* exit status of each child
    pkt_data,           \* pkt.data of each child
    sent,               \* history: successful sendto calls of each child
    nincr,              \* history: increments of ready done by each parent
    pevents,            \* history: "kill" and "reap" as each parent does them
    pforks,             \* failed calls of fork each parent is retrying after
    pfail,              \* history: the failure each parent has run into
    carried,            \* history: pkt.data of the packets each child sent
    cfd                 \* fd of each child

rvars == <<ready, rawsock_lock, ppc, cpc, pkeep, ckeep, p_load, pfd, rrc,
           cstatus, pkt_data, sent, nincr, pevents, pforks, pfail, carried,
           cfd>>

VARIABLES
    \* ---- stress-cacheline.c, the primary and the secondary of one worker
    cacheline_method,   \* index of the configured method (0 is "all")
    cl_pc,              \* position of each process
    cl_i,               \* i of stress_cacheline_all in each process
    cl_rc,              \* rc of stress_cacheline_child in each process
    cl_keep,            \* keep_stressing(args) as each process sees it
    cl_mismatch,        \* history: a routine of the process reported a mismatch
    cl_invoked,         \* history: table indexes of the routines invoked by the
                        \* current call of func, in order
    status,             \* exit status of the secondary, once it has exited
    cl_ret,             \* rc of stress_cacheline in the primary
    cl_events,          \* history: "kill" and "reap" as the primary does them
    cl_forks,           \* failed calls of fork the primary is retrying after
    cl_instance,        \* args->instance of the worker
    cl_written,         \* history: offsets of the region each process wrote
    cl_top_keep,        \* history: keep_stressing when each process came to
                        \* the top of the current iteration of its loop
    cl_stage,           \* how far the current batch of each process's routine
                        \* is: "idle", "ops" (memory operations done) or
                        \* "tested" (*data8 compared with val8)
    cl_b,               \* i of the routine's loop: batches completed
    cl_midstop          \* history: the stop condition was set for the
                        \* process between the operations and the test

cvars == <<cacheline_method, cl_pc, cl_i, cl_rc, cl_keep, cl_mismatch,
           cl_invoked, status, cl_ret, cl_events, cl_forks, cl_instance,
           cl_written, cl_top_keep, cl_stage, cl_b, cl_midstop>>

VARIABLES
    \* ---- stress-cacheline.c, one call of a routine by a single process
    o_method,           \* table index of the routine
    o_start,            \* *data8 when the routine is called
    o_adj,              \* the adjacent byte, *data8adjacent
    o_i,                \* i, the number of batches done
    o_data,             \* *data8
    o_val,              \* val8
    o_tmp,              \* static tmp of stress_cacheline_mix
    o_rc                \* what the routine has returned, "running" before

ovars == <<o_method, o_start, o_adj, o_i, o_data, o_val, o_tmp, o_rc>>

VARIABLES
    \* ---- the method settings of stress-cacheline.c, stress-misaligned.c
    setting_cacheline,  \* the stored "cacheline-method" setting (an index)
    setting_misaligned, \* the stored "misaligned-method" setting (an entry)
    set_reg,            \* the setter called last
    set_name,           \* its argument name
    set_ret,            \* what it returned
    set_stderr,         \* the names it printed to stderr
    resolved            \* the methods the two stressors start with

\* the method settings and the last call of a setter
svars == <<setting_cacheline, setting_misaligned, set_reg, set_name, set_ret,
           set_stderr, resolved>>

VARIABLES
    \* ---- stress-cacheline.c, the start of stress_cacheline
    l_caches,           \* what the cache discovery finds
    l_line_size,        \* cache->line_size of the level 1 cache, if found
    l_instance,         \* args->instance
    l_num_instances,    \* args->num_instances
    l_pc,               \* position of the worker
    l1_cacheline_size,  \* l1_cacheline_size of stress_cacheline
    l_msgs,             \* the pr_inf messages of the worker, in order
    l_rc                \* rc of stress_cacheline

lvars == <<l_caches, l_line_size, l_instance, l_num_instances, l_pc,
           l1_cacheline_size, l_msgs, l_rc>>

VARIABLES
    \* ---- stress-cacheline.c, two processes in their routines, one memory
    \* access at a time
    x_mem,              \* the bytes of g_shared->cacheline
    x_m,                \* table index of the routine of each process
    x_pc,               \* position of each process in its routine
    x_i,                \* i of the routine's loop
    x_val,              \* val8 of each process
    x_reg,              \* the value each process has loaded and not yet stored
    x_tmp,              \* static tmp of stress_cacheline_mix in each process
    x_rc                \* what the routine returned

xvars == <<x_mem, x_m, x_pc, x_i, x_val, x_reg, x_tmp, x_rc>>

VARIABLES
    \* ---- stress-dirmany.c
    d_pc,               \* position of the worker
    d_keep,             \* keep_stressing(args)
    d_fit,              \* the longest padding open() takes without
                        \* ENAMETOOLONG
    d_i_start,          \* i_start of stress_dirmany
    d_i_end,            \* i_end of stress_dirmany_create, then of stress_dirmany
    d_i,                \* i of stress_dirmany_remove
    d_filename_len,     \* filename_len of the phase that is running
    d_max_len,          \* max_len of stress_dirmany
    d_files,            \* the files that exist in the directory
    d_created,          \* history: the names created in this outer iteration
    d_removed,          \* history: the names unlinked in this outer iteration
    d_iter              \* outer iterations completed

dvars == <<d_pc, d_keep, d_fit, d_i_start, d_i_end, d_i, d_filename_len,
           d_max_len, d_files, d_created, d_removed, d_iter>>

vars == <<mvars, rvars, cvars, ovars, svars, lvars, xvars, dvars>>

\* ======================================================================
\* stress-rawsock.c
\* ======================================================================
Instances == 1 .. NumInstances

NoOwner == <<"none", 0>>
Parent(i) == <<"parent", i>>
Child(i) == <<"child", i>>
\* rawsock_lock when stress_lock_create has failed
NullLock == <<"null", 0>>

\* value of a local that holds nothing (not assigned yet, or dead)
Unset == -1

\* the state of the rawsock stressor before any worker runs
RIdle ==
    /\ ready = 0
    /\ rawsock_lock = NoOwner
    /\ ppc = [i \in Instances |-> "fork"]
    /\ cpc = [i \in Instances |-> "none"]
    /\ pkeep = [i \in Instances |-> TRUE]
    /\ ckeep = [i \in Instances |-> TRUE]
    /\ p_load = [i \in Instances |-> Unset]
    /\ pfd = [i \in Instances |-> -1]
    /\ rrc = [i \in Instances |-> EXIT_SUCCESS]
    /\ cstatus = [i \in Instances |-> "none"]
    /\ pkt_data = [i \in Instances |-> 0]
    /\ sent = [i \in Instances |-> 0]
    /\ nincr = [i \in Instances |-> 0]
    /\ pevents = [i \in Instances |-> <<>>]
    /\ pforks = [i \in Instances |-> 0]
    /\ pfail = [i \in Instances |-> "none"]
    /\ carried = [i \in Instances |-> <<>>]
    /\ cfd = [i \in Instances |-> -1]

\* the state of the misaligned stressor before its worker runs
MIdle ==
    /\ disabled = [i \in 0 .. NumSub |-> FALSE]
    /\ exercised = [i \in 0 .. NumSub |-> FALSE]
    /\ all_exercised = FALSE
    /\ misaligned_method = 0
    /\ current_method = 0
    /\ handled_signum = NoSignal
    /\ info = 1
    /\ mpc = "top"
    /\ mrc = EXIT_SUCCESS
    /\ mkeep = TRUE
    /\ returned = {}
    /\ pass_ran = FALSE
    /\ pass_done = {}
    /\ reported = {}
    /\ m_top_keep = TRUE
    /\ m_faults = 0

Roles == {"primary", "secondary"}

\* the state of the cacheline stressor before its worker runs
KIdle ==
    /\ cacheline_method = 0
    /\ cl_pc = [x \in Roles |-> IF x = "primary" THEN "fork" ELSE "none"]
    /\ cl_i = [x \in Roles |-> 1]
    /\ cl_rc = [x \in Roles |-> EXIT_SUCCESS]
    /\ cl_keep = [x \in Roles |-> TRUE]
    /\ cl_mismatch = [x \in Roles |-> FALSE]
    /\ cl_invoked = [x \in Roles |-> <<>>]
    /\ status = "none"
    /\ cl_ret = EXIT_SUCCESS
    /\ cl_events = <<>>
    /\ cl_forks = 0
    /\ cl_instance = 0
    /\ cl_written = [x \in Roles |-> {}]
    /\ cl_top_keep = [x \in Roles |-> TRUE]
    /\ cl_stage = [x \in Roles |-> "idle"]
    /\ cl_b = [x \in Roles |-> 0]
    /\ cl_midstop = [x \in Roles |-> FALSE]

\* static uint8_t tmp = 0xa5 of stress_cacheline_mix
tmp_init == 165

\* the state of a routine of stress-cacheline.c before it is called
OIdle ==
    /\ o_method = 1
    /\ o_start = 0
    /\ o_adj = 0
    /\ o_i = 0
    /\ o_data = 0
    /\ o_val = 0
    /\ o_tmp = tmp_init
    /\ o_rc = "running"

\* no method setting is stored and no setter has been called
SIdle ==
    /\ setting_cacheline = Unset
    /\ setting_misaligned = Unset
    /\ set_reg = "none"
    /\ set_name = ""
    /\ set_ret = 0
    /\ set_stderr = <<>>
    /\ resolved = <<>>

\* DEFAULT_L1_SIZE
DEFAULT_L1_SIZE == 64

\* stress_cacheline has not been entered
LIdle ==
    /\ l_caches = "none"
    /\ l_line_size = 0
    /\ l_instance = 0
    /\ l_num_instances = 1
    /\ l_pc = "idle"
    /\ l1_cacheline_size = DEFAULT_L1_SIZE
    /\ l_msgs = <<>>
    /\ l_rc = EXIT_SUCCESS

\* no process is in a routine
XIdle ==
    /\ x_mem = [a \in 0 .. 1 |-> 0]
    /\ x_m = [x \in Roles |-> 1]
    /\ x_pc = [x \in Roles |-> 1]
    /\ x_i = [x \in Roles |-> 0]
    /\ x_val = [x \in Roles |-> 0]
    /\ x_reg = [x \in Roles |-> 0]
    /\ x_tmp = [x \in Roles |-> tmp_init]
    /\ x_rc = [x \in Roles |-> "idle"]

\* stress_dirmany has not been entered
DIdle ==
    /\ d_pc = "idle"
    /\ d_keep = TRUE
    /\ d_fit = 0
    /\ d_i_start = 0
    /\ d_i_end = 0
    /\ d_i = 0
    /\ d_filename_len = 1
    /\ d_max_len = 0
    /\ d_files = {}
    /\ d_created = {}
    /\ d_removed = {}
    /\ d_iter = 0

\* what the steps of one stressor leave alone
MFrame == UNCHANGED <<rvars, cvars, ovars, svars, lvars, xvars, dvars>>
RFrame == UNCHANGED <<mvars, cvars, ovars, svars, lvars, xvars, dvars>>
KFrame == UNCHANGED <<mvars, rvars, ovars, svars, lvars, xvars, dvars>>
OFrame == UNCHANGED <<mvars, rvars, cvars, svars, lvars, xvars, dvars>>
SFrame == UNCHANGED <<mvars, rvars, cvars, ovars, lvars, xvars, dvars>>
LFrame == UNCHANGED <<mvars, rvars, cvars, ovars, svars, xvars, dvars>>
XFrame == UNCHANGED <<mvars, rvars, cvars, ovars, svars, lvars, dvars>>
DFrame == UNCHANGED <<mvars, rvars, cvars, ovars, svars, lvars, xvars>>

\* stress_lock_acquire returns once no process owns the lock
LockFree(l) == l = NoOwner

\* stress_lock_release by process who
LockRelease(l, who) == IF l = who THEN NoOwner ELSE l

\* if (ready == args->num_instances) break;
IsReady_any(r) == r > 0
IsReady(r) == r = NumInstances

\* kill(getppid(), SIGALRM): the parent's handler makes its
\* keep_stressing(args) false
Signal_none(keep, i) == keep
Signal(keep, i) == [keep EXCEPT ![i] = FALSE]

RInit ==
    /\ MIdle
    /\ KIdle
    /\ OIdle
    /\ SIdle
    /\ LIdle
    /\ XIdle
    /\ DIdle
    /\ ready = 0
    /\ rawsock_lock \in {NoOwner, NullLock}
    /\ ppc = [i \in Instances |-> "fork"]
    /\ cpc = [i \in Instances |-> "none"]
    /\ pkeep = [i \in Instances |-> TRUE]
    /\ ckeep = [i \in Instances |-> TRUE]
    /\ p_load = [i \in Instances |-> Unset]
    /\ pfd = [i \in Instances |-> -1]
    /\ rrc = [i \in Instances |-> EXIT_SUCCESS]
    /\ cstatus = [i \in Instances |-> "none"]
    /\ pkt_data = [i \in Instances |-> 0]
    /\ sent = [i \in Instances |-> 0]
    /\ nincr = [i \in Instances |-> 0]
    /\ pevents = [i \in Instances |-> <<>>]
    /\ pforks = [i \in Instances |-> 0]
    /\ pfail = [i \in Instances |-> "none"]
    /\ carried = [i \in Instances |-> <<>>]
    /\ cfd = [i \in Instances |-> -1]

\* stress_redo_fork(errno): the fork is tried again after a transient error
\* (EAGAIN, EINTR, ENOMEM) as long as the stop condition is unset
stress_redo_fork(transient, keep) == keep /\ transient

\* the result of stress_rawsock when fork has failed for good
ForkFailResult(keep) == IF ~keep THEN EXIT_SUCCESS ELSE EXIT_FAILURE

\* if (!rawsock_lock) return EXIT_NO_RESOURCE
PNoLock(i) ==
    /\ ppc[i] = "fork"
    /\ rawsock_lock = NullLock
    /\ rrc' = [rrc EXCEPT ![i] = EXIT_NO_RESOURCE]
    /\ ppc' = [ppc EXCEPT ![i] = "done"]
    /\ pkeep' = [pkeep EXCEPT ![i] = FALSE]
    /\ UNCHANGED <<ready, rawsock_lock, cpc, ckeep, p_load, pfd, cstatus,
                   pkt_data, sent, nincr, pevents, pforks>>
    /\ pfail' = [pfail EXCEPT ![i] = "lock"]
    /\ UNCHANGED <<carried, cfd>>
    /\ RFrame

\* pid = fork() succeeded: the child starts as a copy of the parent
PFork(i) ==
    /\ ppc[i] = "fork"
    /\ rawsock_lock # NullLock
    /\ ppc' = [ppc EXCEPT ![i] = "setup"]
    /\ cpc' = [cpc EXCEPT ![i] = "start"]
    /\ ckeep' = [ckeep EXCEPT ![i] = pkeep[i]]
    /\ pforks' = [pforks EXCEPT ![i] = 0]
    /\ UNCHANGED <<ready, rawsock_lock, pkeep, p_load, pfd, rrc,
                   cstatus, pkt_data, sent, nincr>>
    /\ UNCHANGED pevents
    /\ UNCHANGED pfail
    /\ UNCHANGED <<carried, cfd>>
    /\ RFrame

\* pid < 0: goto again if stress_redo_fork(errno); else success when the
\* run is over, else pr_fail and return EXIT_FAILURE
PForkFail(i, transient) ==
    /\ ppc[i] = "fork"
    /\ rawsock_lock # NullLock
    /\ IF stress_redo_fork(transient, pkeep[i])
          THEN /\ pforks[i] < MaxRetry
               /\ pforks' = [pforks EXCEPT ![i] = @ + 1]
               /\ UNCHANGED <<ppc, rrc, pkeep>>
          ELSE /\ ppc' = [ppc EXCEPT ![i] = "done"]
               /\ rrc' = [rrc EXCEPT ![i] = ForkFailResult(pkeep[i])]
               /\ pkeep' = [pkeep EXCEPT ![i] = FALSE]
               /\ pforks' = [pforks EXCEPT ![i] = 0]
    /\ UNCHANGED <<ready, rawsock_lock, cpc, ckeep, p_load, pfd, cstatus,
                   pkt_data, sent, nincr>>
    /\ UNCHANGED pevents
    /\ pfail' = [pfail EXCEPT ![i] =
                    IF ~stress_redo_fork(transient, pkeep[i]) /\ pkeep[i]
                       THEN "fork" ELSE @]
    /\ UNCHANGED <<carried, cfd>>
    /\ RFrame

\* parent: stress_sig_stop_stressing, keep_stressing, socket()
PSetup(i, o) ==
    /\ ppc[i] = "setup"
    /\ IF o = "sigfail"
          THEN /\ rrc' = [rrc EXCEPT ![i] = EXIT_FAILURE]
               /\ ppc' = [ppc EXCEPT ![i] = "die"]
               /\ UNCHANGED pfd
          ELSE IF ~pkeep[i]
          THEN /\ ppc' = [ppc EXCEPT ![i] = "die"]
               /\ UNCHANGED <<rrc, pfd>>
          ELSE IF o = "sockfail"
          THEN /\ rrc' = [rrc EXCEPT ![i] = EXIT_FAILURE]
               /\ ppc' = [ppc EXCEPT ![i] = "die"]
               /\ UNCHANGED pfd
          ELSE /\ pfd' = [pfd EXCEPT ![i] = 0]
               /\ ppc' = [ppc EXCEPT ![i] = "acquire"]
               /\ UNCHANGED rrc
    /\ UNCHANGED <<ready, rawsock_lock, cpc, pkeep, ckeep, p_load, cstatus, pkt_data, sent, nincr>>
    /\ UNCHANGED pevents
    /\ UNCHANGED pforks
    /\ pfail' = [pfail EXCEPT ![i] =
                    IF o = "sigfail" THEN "sig"
                    ELSE IF pkeep[i] /\ o = "sockfail" THEN "sock" ELSE @]
    /\ UNCHANGED <<carried, cfd>>
    /\ RFrame

\* parent: stress_lock_acquire(rawsock_lock); g_shared->rawsock.ready++,
\* the load
PAcquire_nolock(i) ==
    /\ ppc[i] = "acquire"
    /\ p_load' = [p_load EXCEPT ![i] = ready]
    /\ ppc' = [ppc EXCEPT ![i] = "inc_store"]
    /\ UNCHANGED <<ready, rawsock_lock, cpc, pkeep, ckeep, pfd, rrc,
                   cstatus, pkt_data, sent, nincr>>
    /\ UNCHANGED pevents
    /\ UNCHANGED pforks
    /\ UNCHANGED pfail
    /\ UNCHANGED <<carried, cfd>>
    /\ RFrame

PAcquire(i) ==
    /\ ppc[i] = "acquire"
    /\ LockFree(rawsock_lock)
    /\ rawsock_lock' = Parent(i)
    /\ p_load' = [p_load EXCEPT ![i] = ready]
    /\ ppc' = [ppc EXCEPT ![i] = "inc_store"]
    /\ UNCHANGED <<ready, cpc, pkeep, ckeep, pfd, rrc, cstatus, pkt_data,
                   sent, nincr>>
    /\ UNCHANGED pevents
    /\ UNCHANGED pforks
    /\ UNCHANGED pfail
    /\ UNCHANGED <<carried, cfd>>
    /\ RFrame

\* parent: g_shared->rawsock.ready++, the store; stress_lock_release
PIncStore(i) ==
    /\ ppc[i] = "inc_store"
    /\ ready' = p_load[i] + 1
    /\ p_load' = [p_load EXCEPT ![i] = Unset]
    /\ nincr' = [nincr EXCEPT ![i] = @ + 1]
    /\ rawsock_lock' = LockRelease(rawsock_lock, Parent(i))
    /\ ppc' = [ppc EXCEPT ![i] = "recv"]
    /\ UNCHANGED <<cpc, pkeep, ckeep, pfd, rrc, cstatus, pkt_data, sent>>
    /\ UNCHANGED pevents
    /\ UNCHANGED pforks
    /\ UNCHANGED pfail
    /\ UNCHANGED <<carried, cfd>>
    /\ RFrame

\* parent: while (keep_stressing(args)) { of the receive loop: the test,
\* then the call of recvfrom
RecvAgain(keep) == keep

PRecvTop(i) ==
    /\ ppc[i] = "recv"
    /\ ppc' = [ppc EXCEPT ![i] = IF RecvAgain(pkeep[i]) THEN "in_recv"
                                                         ELSE "die"]
    /\ UNCHANGED <<ready, rawsock_lock, cpc, pkeep, ckeep, p_load, pfd, rrc,
                   cstatus, pkt_data, sent, nincr>>
    /\ UNCHANGED pevents
    /\ UNCHANGED pforks
    /\ UNCHANGED pfail
    /\ UNCHANGED <<carried, cfd>>
    /\ RFrame

\* parent: recvfrom returned a packet: inc_counter(args) and the next test
PRecvPacket(i) ==
    /\ ppc[i] = "in_recv"
    /\ ppc' = [ppc EXCEPT ![i] = "recv"]
    /\ UNCHANGED <<ready, rawsock_lock, cpc, pkeep, ckeep, p_load, pfd, rrc,
                   cstatus, pkt_data, sent, nincr>>
    /\ UNCHANGED pevents
    /\ UNCHANGED pforks
    /\ UNCHANGED pfail
    /\ UNCHANGED <<carried, cfd>>
    /\ RFrame

\* the outcomes of recvfrom that end the receive loop: n == 0, n < 0 with
\* errno == EINTR, n < 0 with another errno
RecvEnds == {"zero", "eintr", "error"}

\* rc of stress_rawsock after recvfrom has ended the loop with outcome o:
\* pr_fail is called when o is "error", rc is not assigned
RecvResult(rc, o) == rc

\* parent: recvfrom returned 0 or failed (EINTR when a signal interrupted
\* it): break
PRecvEnd(i, o) ==
    /\ ppc[i] = "in_recv"
    /\ ppc' = [ppc EXCEPT ![i] = "die"]
    /\ rrc' = [rrc EXCEPT ![i] = RecvResult(@, o)]
    /\ pfail' = [pfail EXCEPT ![i] = IF o = "error" THEN "recv" ELSE @]
    /\ UNCHANGED <<ready, rawsock_lock, cpc, pkeep, ckeep, p_load, pfd,
                   cstatus, pkt_data, sent, nincr>>
    /\ UNCHANGED pevents
    /\ UNCHANGED pforks
    /\ UNCHANGED <<carried, cfd>>
    /\ RFrame

\* parent: die: kill(pid, SIGKILL); shim_waitpid(pid, &status, 0);
\* close(fd); return rc.  The child is gone once SIGKILL is delivered (or
\* it had exited before), so that the wait returns.
PDie(i) ==
    /\ ppc[i] = "die"
    /\ cpc' = [cpc EXCEPT ![i] = IF @ = "exited" THEN "exited" ELSE "killed"]
    /\ ckeep' = [ckeep EXCEPT ![i] = FALSE]
    /\ pfd' = [pfd EXCEPT ![i] = -1]
    /\ pkeep' = [pkeep EXCEPT ![i] = FALSE]
    /\ ppc' = [ppc EXCEPT ![i] = "done"]
    /\ UNCHANGED <<ready, rawsock_lock, p_load, rrc, cstatus, pkt_data,
                   sent, nincr>>
    /\ pevents' = [pevents EXCEPT ![i] = <<"kill", "reap">>]
    /\ UNCHANGED pforks
    /\ UNCHANGED pfail
    /\ cfd' = [cfd EXCEPT ![i] = -1]
    /\ UNCHANGED carried
    /\ RFrame

\* child: socket(); on failure kill(getppid(), SIGALRM), _exit(EXIT_FAILURE)
CStart(i, ok) ==
    /\ cpc[i] = "start"
    /\ IF ok
          THEN /\ cpc' = [cpc EXCEPT ![i] = "wait_top"]
               /\ UNCHANGED <<pkeep, ckeep, cstatus>>
          ELSE /\ pkeep' = Signal(pkeep, i)
               /\ cstatus' = [cstatus EXCEPT ![i] = EXIT_FAILURE]
               /\ cpc' = [cpc EXCEPT ![i] = "exited"]
               /\ ckeep' = [ckeep EXCEPT ![i] = FALSE]
    /\ UNCHANGED <<ready, rawsock_lock, ppc, p_load, pfd,
                   rrc, pkt_data, sent, nincr>>
    /\ UNCHANGED pevents
    /\ UNCHANGED pforks
    /\ UNCHANGED pfail
    /\ cfd' = [cfd EXCEPT ![i] = IF ok THEN 0 ELSE @]
    /\ UNCHANGED carried
    /\ RFrame

\* child: while (keep_stressing(args)) of the wait loop
CWaitTop(i) ==
    /\ cpc[i] = "wait_top"
    /\ cpc' = [cpc EXCEPT ![i] = IF ckeep[i] THEN "acquire" ELSE "send_loop"]
    /\ UNCHANGED <<ready, rawsock_lock, ppc, pkeep, ckeep, p_load, pfd, rrc, cstatus, pkt_data, sent, nincr>>
    /\ UNCHANGED pevents
    /\ UNCHANGED pforks
    /\ UNCHANGED pfail
    /\ UNCHANGED <<carried, cfd>>
    /\ RFrame

\* child: stress_lock_acquire(rawsock_lock)
CAcquire(i) ==
    /\ cpc[i] = "acquire"
    /\ LockFree(rawsock_lock)
    /\ rawsock_lock' = Child(i)
    /\ cpc' = [cpc EXCEPT ![i] = "locked"]
    /\ UNCHANGED <<ready, ppc, pkeep, ckeep, p_load, pfd, rrc,
                   cstatus, pkt_data, sent, nincr>>
    /\ UNCHANGED pevents
    /\ UNCHANGED pforks
    /\ UNCHANGED pfail
    /\ UNCHANGED <<carried, cfd>>
    /\ RFrame

\* child: ready = g_shared->rawsock.ready; stress_lock_release;
\* if (ready == args->num_instances) break; shim_usleep(20000);
CReadRelease(i) ==
    /\ cpc[i] = "locked"
    /\ rawsock_lock' = LockRelease(rawsock_lock, Child(i))
    /\ cpc' = [cpc EXCEPT ![i] = IF IsReady(ready) THEN "send_loop"
                                                    ELSE "wait_top"]
    /\ UNCHANGED <<ready, ppc, pkeep, ckeep, p_load, pfd, rrc, cstatus,
                   pkt_data, sent, nincr>>
    /\ UNCHANGED pevents
    /\ UNCHANGED pforks
    /\ UNCHANGED pfail
    /\ UNCHANGED <<carried, cfd>>
    /\ RFrame

\* pkt.data++ on a uint32_t (no run of the model sends enough packets for
\* the counter to wrap)
PktInc_two(d) == d + 2
PktInc(d) == d + 1

\* child: while (keep_stressing(args)) { sendto(...); if (sret < 0) break;
\* pkt.data++; } and, once the loop has ended, close(fd);
\* kill(getppid(), SIGALRM); _exit(EXIT_SUCCESS)
CSendLoop(i, ok) ==
    /\ cpc[i] = "send_loop"
    /\ IF ~ckeep[i] \/ ~ok
          THEN /\ pkeep' = Signal(pkeep, i)
               /\ cstatus' = [cstatus EXCEPT ![i] = EXIT_SUCCESS]
               /\ cpc' = [cpc EXCEPT ![i] = "exited"]
               /\ ckeep' = [ckeep EXCEPT ![i] = FALSE]
               /\ UNCHANGED <<pkt_data, sent>>
          ELSE /\ sent[i] < MaxSent
               /\ sent' = [sent EXCEPT ![i] = @ + 1]
               /\ pkt_data' = [pkt_data EXCEPT ![i] = PktInc(@)]
               /\ UNCHANGED <<cpc, pkeep, ckeep, cstatus>>
    /\ UNCHANGED <<ready, rawsock_lock, ppc, p_load, pfd, rrc, nincr>>
    /\ UNCHANGED pevents
    /\ UNCHANGED pforks
    /\ UNCHANGED pfail
    /\ cfd' = [cfd EXCEPT ![i] = IF ~ckeep[i] \/ ~ok THEN -1 ELSE @]
    /\ carried' = [carried EXCEPT ![i] =
                      IF ~ckeep[i] \/ ~ok THEN @ ELSE Append(@, pkt_data[i])]
    /\ RFrame

\* the stop condition fires for a parent
RStopParent(i) ==
    /\ pkeep[i]
    /\ ppc[i] # "done"
    /\ pkeep' = [pkeep EXCEPT ![i] = FALSE]
    /\ UNCHANGED <<ready, rawsock_lock, ppc, cpc, ckeep, p_load, pfd, rrc, cstatus, pkt_data, sent, nincr>>
    /\ UNCHANGED pevents
    /\ UNCHANGED pforks
    /\ UNCHANGED pfail
    /\ UNCHANGED <<carried, cfd>>
    /\ RFrame

\* the stop condition fires for a child
RStopChild(i) ==
    /\ ckeep[i]
    /\ cpc[i] \notin {"none", "exited", "killed"}
    /\ ckeep' = [ckeep EXCEPT ![i] = FALSE]
    /\ UNCHANGED <<ready, rawsock_lock, ppc, cpc, pkeep, p_load, pfd, rrc, cstatus, pkt_data, sent, nincr>>
    /\ UNCHANGED pevents
    /\ UNCHANGED pforks
    /\ UNCHANGED pfail
    /\ UNCHANGED <<carried, cfd>>
    /\ RFrame

\* the steps of parent i that do not wait for anything outside the program
PProgress(i) ==
    \/ PFork(i)
    \/ \E o \in {"sigfail", "sockfail", "ok"} : PSetup(i, o)
    \/ PIncStore(i)
    \/ PRecvTop(i)
    \/ PDie(i)

\* the steps of child i that do not wait for the lock
CProgress(i) ==
    \/ \E ok \in BOOLEAN : CStart(i, ok)
    \/ CWaitTop(i)
    \/ CReadRelease(i)
    \/ \E ok \in BOOLEAN : CSendLoop(i, ok)

RNext ==
    \E i \in Instances :
        \/ PProgress(i)
        \/ PNoLock(i)
        \/ \E transient \in BOOLEAN : PForkFail(i, transient)
        \/ PAcquire(i)
        \/ PRecvPacket(i)
        \/ \E o \in RecvEnds : PRecvEnd(i, o)
        \/ CProgress(i)
        \/ CAcquire(i)
        \/ RStopParent(i)
        \/ RStopChild(i)

SpecRawsock == RInit /\ [][RNext]_vars

\* every process is scheduled, and a process that asks for the lock gets
\* it if the lock is free again and again
SpecRawsockFair ==
    /\ RInit
    /\ [][RNext]_vars
    /\ \A i \in Instances :
          /\ WF_vars(PProgress(i))
          /\ WF_vars(CProgress(i))
          /\ SF_vars(PAcquire(i))
          /\ SF_vars(CAcquire(i))

\* ----------------------------------------------------------------------
\* Properties of stress-rawsock.c
\* ----------------------------------------------------------------------

\* child i is in its "wait for server to start" loop
InWaitLoop(i) == cpc[i] \in {"wait_top", "acquire", "locked"}

\* child i is about to call sendto
AboutToSend(i) == cpc[i] = "send_loop" /\ ckeep[i]

RECURSIVE SumIncr(_)
SumIncr(n) == IF n = 0 THEN 0 ELSE nincr[n] + SumIncr(n - 1)

\* C1: while the counter is below the number of instances no sender has
\* sent a packet or is about to send one (each is in its wait loop, on its
\* way out with the stop condition set, or gone), and the counter is read
\* by a sender only while that sender owns the lock.
C1_BarrierSafety ==
    \A i \in Instances :
        /\ ready < NumInstances => (sent[i] = 0 /\ ~AboutToSend(i))
        /\ cpc[i] = "locked" => rawsock_lock = Child(i)

C1_Witness ==
    /\ ready = NumInstances - 1
    /\ \E i, j \in Instances :
          /\ i # j
          /\ cpc[i] = "locked"
          /\ cpc[j] = "exited" /\ cstatus[j] = EXIT_SUCCESS /\ sent[j] = 0

\* C2: the counter is loaded, stored and read only by the owner of the
\* lock, a receiver increments it at most once and only with its socket
\* open, and the counter equals the number of increments done (none is
\* lost) and never exceeds the number of instances.
C2_CounterIntegrity ==
    /\ ready = SumIncr(NumInstances)
    /\ ready <= NumInstances
    /\ \A i \in Instances :
          /\ nincr[i] <= 1
          /\ ppc[i] \in {"recv", "in_recv"} => nincr[i] = 1
          /\ ppc[i] \in {"fork", "setup", "acquire", "inc_store"} => nincr[i] = 0
          /\ ppc[i] \in {"acquire", "inc_store", "recv", "in_recv"}
                 => pfd[i] >= 0
          /\ ppc[i] = "inc_store" => rawsock_lock = Parent(i)
          /\ cpc[i] = "locked" => rawsock_lock = Child(i)

C2_Witness ==
    /\ ready = NumInstances
    /\ \A i \in Instances : nincr[i] = 1 /\ ppc[i] = "recv"

\* C3 as claimed: once all receivers have incremented the counter, a sender
\* whose stop condition is unset leaves the wait loop; and a sender in the
\* wait loop whose stop condition has fired leaves the loop and ends.
C3_Claim ==
    \A i \in Instances :
        /\ (ready = NumInstances /\ InWaitLoop(i) /\ ckeep[i])
               ~> (~InWaitLoop(i) \/ ~ckeep[i])
        /\ (InWaitLoop(i) /\ ~ckeep[i]) ~> (cpc[i] \in {"exited", "killed"})

\* C21 as claimed: a receiver whose recvfrom failed with an errno other
\* than EINTR returns a failure status from stress_rawsock; a receive loop
\* ended by a zero-length receive or by EINTR leaves the result as it was.
C21_Claim ==
    /\ \A i \in Instances :
           (ppc[i] = "done" /\ pfail[i] = "recv") => rrc[i] # EXIT_SUCCESS
    /\ \A i \in Instances :
           (ppc[i] = "die" /\ pfail[i] = "none") => rrc[i] = EXIT_SUCCESS

\* the payloads 0, 1, ..., n-1
CountFrom0(n) == [k \in 1 .. n |-> k - 1]

C30_Claim ==
    /\ [](\A i \in Instances :
             /\ cpc[i] \in {"exited", "killed"} => rawsock_lock # Child(i)
             /\ ppc[i] = "done" => rawsock_lock # Parent(i))
    /\ \A i \in Instances :
           /\ (ppc[i] = "acquire") ~> (rawsock_lock = Parent(i))
           /\ (cpc[i] = "acquire") ~> (rawsock_lock = Child(i) \/ cpc[i] = "killed")

\* ======================================================================
\* stress-cacheline.c
\* ======================================================================

\* SIZEOF_ARRAY(cacheline_methods)
cacheline_methods_n == 11

KInit ==
    /\ MIdle
    /\ RIdle
    /\ OIdle
    /\ SIdle
    /\ LIdle
    /\ XIdle
    /\ DIdle
    /\ cacheline_method \in 0 .. (cacheline_methods_n - 1)
    /\ cl_pc = [x \in Roles |-> IF x = "primary" THEN "fork" ELSE "none"]
    /\ cl_i = [x \in Roles |-> 1]
    /\ cl_rc = [x \in Roles |-> EXIT_SUCCESS]
    /\ cl_keep = [x \in Roles |-> TRUE]
    /\ cl_mismatch = [x \in Roles |-> FALSE]
    /\ cl_invoked = [x \in Roles |-> <<>>]
    /\ status = "none"
    /\ cl_ret = EXIT_SUCCESS
    /\ cl_events = <<>>
    /\ cl_forks = 0
    /\ cl_instance \in 0 .. (NumInstances - 1)
    /\ cl_written = [x \in Roles |-> {}]
    /\ cl_top_keep = [x \in Roles |-> TRUE]
    /\ cl_stage = [x \in Roles |-> "idle"]
    /\ cl_b = [x \in Roles |-> 0]
    /\ cl_midstop = [x \in Roles |-> FALSE]

\* the value stress_cacheline takes from a call of stress_cacheline_child
\* in the primary: the call's value is dropped, rc stays as it was
PrimaryResult(ret, child_rc) == ret

\* if (WIFEXITED(status) && (WEXITSTATUS(status) != EXIT_SUCCESS)) rc = ...
StatusResult(ret, st) == IF st # EXIT_SUCCESS THEN st ELSE ret

\* } while ((rc == EXIT_SUCCESS) && keep_stressing(args));
LoopAgain_keeponly(rc, keep) == keep
LoopAgain(rc, keep) == rc = EXIT_SUCCESS /\ keep

\* keep_stressing(args) && (i < n), the test of the loop of
\* stress_cacheline_all
AllMore_short(keep, i) == keep /\ i < cacheline_methods_n - 1
AllMore(keep, i) == keep /\ i < cacheline_methods_n

\* i++ of the loop of stress_cacheline_all
AllNext_skip(i) == i + 2
AllNext(i) == i + 1

\* shim_waitpid(pid, &status, 0) returns once the child has terminated
ChildGone_nowait(c) == TRUE
ChildGone(c) == c = "exited"

\* index = args->instance * 2 for the primary, index + 1 for the secondary
Index(inst, x) == IF x = "primary" THEN inst * 2 ELSE inst * 2 + 1

\* data8adjacent = data8 ^ 1
Adjacent(idx) == IF idx % 2 = 0 THEN idx + 1 ELSE idx - 1

\* the offsets routine m stores to when called with index idx: every
\* routine stores through data8 = cacheline + index only
Writes_adjacent(m, idx) == IF m = 4 THEN {idx, Adjacent(idx)} ELSE {idx}
Writes(m, idx) == {idx}

\* the result of stress_cacheline when fork has failed for good
KForkFailResult(ret, keep) == IF ~keep THEN ret ELSE EXIT_NO_RESOURCE

\* pid = fork() succeeded: both processes enter stress_cacheline_child
KFork ==
    /\ cl_pc["primary"] = "fork"
    /\ cl_pc' = [x \in Roles |-> "loop"]
    /\ cl_keep' = [cl_keep EXCEPT !["secondary"] = cl_keep["primary"]]
    /\ cl_forks' = 0
    /\ UNCHANGED <<cacheline_method, cl_i, cl_rc, cl_mismatch, cl_invoked,
                   status, cl_ret>>
    /\ UNCHANGED cl_events
    /\ UNCHANGED <<cl_instance, cl_written>>
    /\ cl_top_keep' = [x \in Roles |-> cl_keep["primary"]]
    /\ UNCHANGED <<cl_stage, cl_b, cl_midstop>>
    /\ KFrame

\* pid < 0: goto again if stress_redo_fork(errno); else finish with rc
\* unchanged when the run is over, else pr_err and return EXIT_NO_RESOURCE
KForkFail(transient) ==
    /\ cl_pc["primary"] = "fork"
    /\ IF stress_redo_fork(transient, cl_keep["primary"])
          THEN /\ cl_forks < MaxRetry
               /\ cl_forks' = cl_forks + 1
               /\ UNCHANGED <<cl_pc, cl_ret>>
          ELSE /\ cl_pc' = [cl_pc EXCEPT !["primary"] = "done"]
               /\ cl_ret' = KForkFailResult(cl_ret, cl_keep["primary"])
               /\ cl_forks' = 0
    /\ UNCHANGED <<cacheline_method, cl_i, cl_rc, cl_keep, cl_mismatch,
                   cl_invoked, status>>
    /\ UNCHANGED cl_events
    /\ UNCHANGED <<cl_instance, cl_written>>
    /\ UNCHANGED cl_top_keep
    /\ UNCHANGED <<cl_stage, cl_b, cl_midstop>>
    /\ KFrame

\* do { rc = func(args, index, parent, l1_cacheline_size): the call, which
\* for "all" starts the loop of stress_cacheline_all at i = 1
KCall(x) ==
    /\ cl_pc[x] = "loop"
    /\ IF cacheline_method = 0
          THEN /\ cl_i' = [cl_i EXCEPT ![x] = 1]
               /\ cl_pc' = [cl_pc EXCEPT ![x] = "all_top"]
               /\ cl_invoked' = [cl_invoked EXCEPT ![x] = <<>>]
          ELSE /\ cl_pc' = [cl_pc EXCEPT ![x] = "in_func"]
               /\ cl_invoked' = [cl_invoked EXCEPT ![x] = <<cacheline_method>>]
               /\ UNCHANGED cl_i
    /\ UNCHANGED <<cacheline_method, cl_rc, cl_keep, cl_mismatch, status, cl_ret>>
    /\ UNCHANGED cl_events
    /\ UNCHANGED cl_forks
    /\ UNCHANGED <<cl_instance, cl_written>>
    /\ UNCHANGED cl_top_keep
    /\ cl_stage' = [cl_stage EXCEPT ![x] = "idle"]
    /\ cl_b' = [cl_b EXCEPT ![x] = 0]
    /\ UNCHANGED cl_midstop
    /\ KFrame

\* for (i = 1; keep_stressing(args) && (i < n); i++) ... return EXIT_SUCCESS
KAllTop(x) ==
    /\ cl_pc[x] = "all_top"
    /\ IF AllMore(cl_keep[x], cl_i[x])
          THEN /\ cl_pc' = [cl_pc EXCEPT ![x] = "in_func"]
               /\ cl_invoked' = [cl_invoked EXCEPT ![x] = Append(@, cl_i[x])]
               /\ UNCHANGED cl_rc
          ELSE /\ cl_rc' = [cl_rc EXCEPT ![x] = EXIT_SUCCESS]
               /\ cl_pc' = [cl_pc EXCEPT ![x] = "after"]
               /\ UNCHANGED cl_invoked
    /\ UNCHANGED <<cacheline_method, cl_i, cl_keep, cl_mismatch, status, cl_ret>>
    /\ UNCHANGED cl_events
    /\ UNCHANGED cl_forks
    /\ UNCHANGED <<cl_instance, cl_written>>
    /\ UNCHANGED cl_top_keep
    /\ cl_stage' = [cl_stage EXCEPT ![x] = "idle"]
    /\ cl_b' = [cl_b EXCEPT ![x] = 0]
    /\ UNCHANGED cl_midstop
    /\ KFrame

\* for (i = 0; i < 1024; i++) { the memory operations of one batch
KBatchOps(x) ==
    /\ cl_pc[x] = "in_func"
    /\ cl_stage[x] # "ops"
    /\ cl_b[x] < NumBatch
    /\ cl_stage' = [cl_stage EXCEPT ![x] = "ops"]
    /\ UNCHANGED <<cacheline_method, cl_pc, cl_i, cl_rc, cl_keep, cl_mismatch,
                   cl_invoked, status, cl_ret, cl_events, cl_forks,
                   cl_instance, cl_written, cl_top_keep, cl_b, cl_midstop>>
    /\ KFrame

\* if (UNLIKELY(*data8 != val8)) ... with *data8 equal to val8: next i
KBatchTest(x) ==
    /\ cl_pc[x] = "in_func"
    /\ cl_stage[x] = "ops"
    /\ cl_stage' = [cl_stage EXCEPT ![x] = "tested"]
    /\ cl_b' = [cl_b EXCEPT ![x] = @ + 1]
    /\ UNCHANGED <<cacheline_method, cl_pc, cl_i, cl_rc, cl_keep, cl_mismatch,
                   cl_invoked, status, cl_ret, cl_events, cl_forks,
                   cl_instance, cl_written, cl_top_keep, cl_midstop>>
    /\ KFrame

\* a routine returns r: EXIT_FAILURE from the test of a batch that found a
\* mismatch, else EXIT_SUCCESS after the last batch;
\* under "all": if (rc != EXIT_SUCCESS) return rc; else the next i
KFuncReturn(x, r) ==
    /\ cl_pc[x] = "in_func"
    /\ cl_mismatch' = [cl_mismatch EXCEPT ![x] = @ \/ (r # EXIT_SUCCESS)]
    /\ IF cacheline_method = 0 /\ r = EXIT_SUCCESS
          THEN /\ cl_i' = [cl_i EXCEPT ![x] = AllNext(@)]
               /\ cl_pc' = [cl_pc EXCEPT ![x] = "all_top"]
               /\ UNCHANGED cl_rc
          ELSE /\ cl_rc' = [cl_rc EXCEPT ![x] = r]
               /\ cl_pc' = [cl_pc EXCEPT ![x] = "after"]
               /\ UNCHANGED cl_i
    /\ UNCHANGED <<cacheline_method, cl_keep, cl_invoked, status, cl_ret>>
    /\ UNCHANGED cl_events
    /\ UNCHANGED cl_forks
    /\ cl_written' = [cl_written EXCEPT ![x] =
           @ \cup Writes(cl_invoked[x][Len(cl_invoked[x])],
                         Index(cl_instance, x))]
    /\ UNCHANGED cl_instance
    /\ UNCHANGED cl_top_keep
    /\ IF r = EXIT_SUCCESS
          THEN cl_stage[x] = "tested" /\ cl_b[x] = NumBatch
          ELSE cl_stage[x] = "ops"
    /\ cl_stage' = [cl_stage EXCEPT ![x] = "tested"]
    /\ UNCHANGED <<cl_b, cl_midstop>>
    /\ KFrame

\* } while ((rc == EXIT_SUCCESS) && keep_stressing(args)); in the primary
\* the end of the loop is the return to stress_cacheline
KLoopCondPrimary ==
    /\ cl_pc["primary"] = "after"
    /\ IF LoopAgain(cl_rc["primary"], cl_keep["primary"])
          THEN /\ cl_pc' = [cl_pc EXCEPT !["primary"] = "loop"]
               /\ UNCHANGED cl_ret
          ELSE /\ cl_pc' = [cl_pc EXCEPT !["primary"] = "kill"]
               /\ cl_ret' = PrimaryResult(cl_ret, cl_rc["primary"])
    /\ UNCHANGED <<cacheline_method, cl_i, cl_rc, cl_keep, cl_mismatch,
                   cl_invoked, status>>
    /\ UNCHANGED cl_events
    /\ UNCHANGED cl_forks
    /\ UNCHANGED <<cl_instance, cl_written>>
    /\ cl_top_keep' = [cl_top_keep EXCEPT !["primary"] =
           IF LoopAgain(cl_rc["primary"], cl_keep["primary"]) THEN cl_keep["primary"] ELSE @]
    /\ UNCHANGED <<cl_stage, cl_b, cl_midstop>>
    /\ KFrame

\* the same test in the secondary; the end of the loop is
\* kill(getppid(), SIGALRM); return rc; _exit(rc)
KLoopCondSecondary ==
    /\ cl_pc["secondary"] = "after"
    /\ IF LoopAgain(cl_rc["secondary"], cl_keep["secondary"])
          THEN /\ cl_pc' = [cl_pc EXCEPT !["secondary"] = "loop"]
               /\ UNCHANGED <<cl_keep, status>>
          ELSE /\ cl_pc' = [cl_pc EXCEPT !["secondary"] = "exited"]
               /\ cl_keep' = Signal(cl_keep, "primary")
               /\ status' = cl_rc["secondary"]
    /\ UNCHANGED <<cacheline_method, cl_i, cl_rc, cl_mismatch, cl_invoked,
                   cl_ret>>
    /\ UNCHANGED cl_events
    /\ UNCHANGED cl_forks
    /\ UNCHANGED <<cl_instance, cl_written>>
    /\ cl_top_keep' = [cl_top_keep EXCEPT !["secondary"] =
           IF LoopAgain(cl_rc["secondary"], cl_keep["secondary"]) THEN cl_keep["secondary"] ELSE @]
    /\ UNCHANGED <<cl_stage, cl_b>>
    /\ cl_midstop' = [cl_midstop EXCEPT !["primary"] =
           @ \/ (/\ ~LoopAgain(cl_rc["secondary"], cl_keep["secondary"])
                 /\ cl_keep["primary"] /\ cl_stage["primary"] = "ops")]
    /\ KFrame

\* the signal the primary sends to the secondary
KillSignal_kill == "SIGKILL"
KillSignal == "SIGALRM"

\* primary: kill(pid, SIGALRM); SIGALRM is caught and ends keep_stressing in
\* the secondary, a signal that cannot be caught ends the secondary at once
KKill ==
    /\ cl_pc["primary"] = "kill"
    /\ IF KillSignal = "SIGALRM"
          THEN /\ cl_keep' = [cl_keep EXCEPT !["secondary"] = FALSE]
               /\ cl_pc' = [cl_pc EXCEPT !["primary"] = "wait"]
          ELSE /\ UNCHANGED cl_keep
               /\ cl_pc' = [cl_pc EXCEPT !["primary"] = "wait",
                                         !["secondary"] = "exited"]
    /\ UNCHANGED <<cacheline_method, cl_i, cl_rc, cl_mismatch, cl_invoked,
                   status, cl_ret>>
    /\ cl_events' = Append(cl_events, "kill")
    /\ UNCHANGED cl_forks
    /\ UNCHANGED <<cl_instance, cl_written>>
    /\ UNCHANGED cl_top_keep
    /\ UNCHANGED <<cl_stage, cl_b>>
    /\ cl_midstop' = [cl_midstop EXCEPT !["secondary"] =
           @ \/ (cl_keep["secondary"] /\ cl_stage["secondary"] = "ops")]
    /\ KFrame

\* primary: shim_waitpid(pid, &status, 0), the status test, return rc
KWait ==
    /\ cl_pc["primary"] = "wait"
    /\ ChildGone(cl_pc["secondary"])
    /\ cl_ret' = StatusResult(cl_ret, status)
    /\ cl_pc' = [cl_pc EXCEPT !["primary"] = "done"]
    /\ UNCHANGED <<cacheline_method, cl_i, cl_rc, cl_keep, cl_mismatch,
                   cl_invoked, status>>
    /\ cl_events' = Append(cl_events, "reap")
    /\ UNCHANGED cl_forks
    /\ UNCHANGED <<cl_instance, cl_written>>
    /\ UNCHANGED cl_top_keep
    /\ UNCHANGED <<cl_stage, cl_b, cl_midstop>>
    /\ KFrame

\* the stop condition fires for a process
KStop(x) ==
    /\ cl_keep[x]
    /\ cl_pc[x] \notin {"none", "exited", "done"}
    /\ cl_keep' = [cl_keep EXCEPT ![x] = FALSE]
    /\ UNCHANGED <<cacheline_method, cl_pc, cl_i, cl_rc, cl_mismatch,
                   cl_invoked, status, cl_ret>>
    /\ UNCHANGED cl_events
    /\ UNCHANGED cl_forks
    /\ UNCHANGED <<cl_instance, cl_written>>
    /\ UNCHANGED cl_top_keep
    /\ UNCHANGED <<cl_stage, cl_b>>
    /\ cl_midstop' = [cl_midstop EXCEPT ![x] =
           @ \/ (cl_keep[x] /\ cl_stage[x] = "ops")]
    /\ KFrame

KNext ==
    \/ KFork
    \/ \E transient \in BOOLEAN : KForkFail(transient)
    \/ \E x \in Roles : KCall(x)
    \/ \E x \in Roles : KAllTop(x)
    \/ \E x \in Roles : KBatchOps(x)
    \/ \E x \in Roles : KBatchTest(x)
    \/ \E x \in Roles : \E r \in {EXIT_SUCCESS, EXIT_FAILURE} : KFuncReturn(x, r)
    \/ KLoopCondPrimary
    \/ KLoopCondSecondary
    \/ KKill
    \/ KWait
    \/ \E x \in Roles : KStop(x)

SpecCacheline == KInit /\ [][KNext]_vars

\* the steps of the code of process x
KRoleStep(x) ==
    \/ KCall(x)
    \/ KAllTop(x)
    \/ KBatchOps(x)
    \/ KBatchTest(x)
    \/ \E r \in {EXIT_SUCCESS, EXIT_FAILURE} : KFuncReturn(x, r)
    \/ x = "primary" /\ (KLoopCondPrimary \/ KKill \/ KWait)
    \/ x = "primary" /\ (KFork \/ \E transient \in BOOLEAN : KForkFail(transient))
    \/ x = "secondary" /\ KLoopCondSecondary

\* each process is scheduled: a step of its code that is possible is
\* eventually taken
SpecCachelineFair ==
    KInit /\ [][KNext]_vars /\ \A x \in Roles : WF_vars(KRoleStep(x))

\* ----------------------------------------------------------------------
\* The start of stress_cacheline: the L1 cache line size
\* ----------------------------------------------------------------------

\* what the discovery can find: no cache details at all ("none"), details
\* without a level 1 cache ("nol1"), a level 1 cache ("l1"), or a build
\* that is not for Linux and does not look ("notlinux")
Discoveries == {"none", "nol1", "l1", "notlinux"}

\* values of cache->line_size
LineSizes == {0} \cup {2 ^ k : k \in 1 .. 8}

\* get_L1_line_size: the value returned
get_L1_line_size_nocheck(caches, line_size) ==
    IF caches = "l1" THEN line_size ELSE DEFAULT_L1_SIZE
get_L1_line_size(caches, line_size) ==
    IF caches = "l1" /\ line_size # 0 THEN line_size ELSE DEFAULT_L1_SIZE

\* get_L1_line_size: the pr_inf of the path taken, printed by instance 0
L1Messages(caches, line_size, instance) ==
    IF instance # 0 THEN <<>>
    ELSE CASE caches \in {"none", "notlinux"} ->
                  <<"unable to determine cache line details">>
           [] caches = "nol1" -> <<"no suitable cache found">>
           [] caches = "l1" /\ line_size = 0 ->
                  <<"unable to determine cache line size">>
           [] OTHER -> <<>>

\* if (args->instance == 0) if ((args->num_instances * 2) < l1_cacheline_size)
NoteDue(instance, num_instances, size) ==
    instance = 0 /\ num_instances * 2 < size

LInit ==
    /\ MIdle
    /\ RIdle
    /\ KIdle
    /\ OIdle
    /\ SIdle
    /\ XIdle
    /\ DIdle
    /\ l_caches \in Discoveries
    /\ l_line_size \in IF l_caches = "l1" THEN LineSizes ELSE {0}
    /\ l_num_instances \in 1 .. NumInstances
    /\ l_instance \in 0 .. (l_num_instances - 1)
    /\ l_pc = "entry"
    /\ l1_cacheline_size = 0
    /\ l_msgs = <<>>
    /\ l_rc = EXIT_SUCCESS

\* size_t l1_cacheline_size = (size_t)get_L1_line_size(args);
LGetLineSize ==
    /\ l_pc = "entry"
    /\ l1_cacheline_size' = get_L1_line_size(l_caches, l_line_size)
    /\ l_msgs' = L1Messages(l_caches, l_line_size, l_instance)
    /\ l_pc' = "note"
    /\ UNCHANGED <<l_caches, l_line_size, l_instance, l_num_instances, l_rc>>
    /\ LFrame

\* the pr_inf about the instances a full cache line needs; the worker goes
\* on to stress_set_proc_state(args->name, STRESS_STATE_RUN) and fork
LNote ==
    /\ l_pc = "note"
    /\ l_msgs' = IF NoteDue(l_instance, l_num_instances, l1_cacheline_size)
                 THEN Append(l_msgs, "instances are required")
                 ELSE l_msgs
    /\ l_pc' = "run"
    /\ UNCHANGED <<l_caches, l_line_size, l_instance, l_num_instances,
                   l1_cacheline_size, l_rc>>
    /\ LFrame

LNext == LGetLineSize \/ LNote

SpecLineSize == LInit /\ [][LNext]_vars

\* C28: the line size of a run is the detected line size of the level 1
\* cache when that is not 0, and 64 when there are no cache details, no
\* level 1 cache or a line size of 0, so it is never 0; the note about the
\* instances a full line needs is printed exactly by instance 0 when twice
\* the instance count is below the line size, and with or without it the
\* worker goes on with rc still EXIT_SUCCESS.
C28_LineSizeFallback ==
    l_pc \in {"note", "run"} =>
        /\ l1_cacheline_size # 0
        /\ (l_caches = "l1" /\ l_line_size # 0) =>
               l1_cacheline_size = l_line_size
        /\ (l_caches # "l1" \/ l_line_size = 0) =>
               l1_cacheline_size = DEFAULT_L1_SIZE
        /\ l_rc = EXIT_SUCCESS
        /\ l_pc = "run" =>
               ((\E k \in 1 .. Len(l_msgs) : l_msgs[k] = "instances are required")
                    <=> (l_instance = 0
                             /\ l_num_instances * 2 < l1_cacheline_size))

\* instance 0 of two found a level 1 cache with line size 0, runs with 64
\* and has printed the note
C28_Witness ==
    /\ l_pc = "run"
    /\ l_num_instances = 2
    /\ l_caches = "l1"
    /\ l_line_size = 0
    /\ l_instance = 0
    /\ l1_cacheline_size = DEFAULT_L1_SIZE
    /\ l_msgs = <<"unable to determine cache line size", "instances are required">>
    /\ l_rc = EXIT_SUCCESS

\* ----------------------------------------------------------------------
\* Properties of stress-cacheline.c
\* ----------------------------------------------------------------------

\* C10 as claimed: when a routine of the primary or of the secondary has
\* reported a mismatch, stress_cacheline returns a status other than
\* EXIT_SUCCESS.
C10_Claim ==
    (cl_pc["primary"] = "done" /\ \E x \in Roles : cl_mismatch[x])
        => cl_ret # EXIT_SUCCESS

PastLoop == {"kill", "wait", "done", "exited"}

\* C11: a mismatch is returned as EXIT_FAILURE, and a process in which a
\* routine has returned non-success invokes no further routine: it is at
\* the loop test with rc = EXIT_FAILURE or past the loop, whatever
\* keep_stressing says.
C11_MismatchStopsLoop ==
    \A x \in Roles :
        cl_mismatch[x] =>
            /\ cl_rc[x] = EXIT_FAILURE
            /\ cl_pc[x] \in PastLoop \cup {"after"}

\* a routine of the primary failed while the stop condition was unset, and
\* the primary is past its loop with the stop condition still unset
C11_Witness ==
    /\ cl_mismatch["primary"]
    /\ cl_keep["primary"]
    /\ cl_pc["primary"] = "kill"

\* the routines a call of "all" has invoked are entries 1, 2, ... in order
InTableOrder(q) == q = [k \in 1 .. Len(q) |-> k]

\* C12: under "all", the entries invoked by one call are 1, 2, 3, ... in
\* table order with none left out or repeated; when an entry returns
\* non-success it is the last one invoked by the call, and the call
\* returns that status (EXIT_FAILURE) to stress_cacheline_child.
C12_AllOrderShortCircuit ==
    \A x \in Roles :
        cacheline_method = 0 =>
            /\ InTableOrder(cl_invoked[x])
            /\ Len(cl_invoked[x]) < cacheline_methods_n
            /\ cl_pc[x] = "in_func" =>
                   /\ cl_invoked[x] # <<>>
                   /\ cl_invoked[x][Len(cl_invoked[x])] = cl_i[x]
            /\ cl_mismatch[x] =>
                   /\ cl_invoked[x] # <<>>
                   /\ cl_invoked[x][Len(cl_invoked[x])] = cl_i[x]
                   /\ cl_rc[x] = EXIT_FAILURE
                   /\ cl_pc[x] # "in_func"

\* the third entry of a call of "all" failed in the secondary, after
\* entries 1 and 2 had succeeded, and the secondary has left its loop
C12_Witness ==
    /\ cacheline_method = 0
    /\ cl_mismatch["secondary"]
    /\ cl_invoked["secondary"] = <<1, 2, 3>>
    /\ cl_pc["secondary"] = "exited"

\* ======================================================================
\* stress-misaligned.c
\* ======================================================================
Methods == 0 .. NumSub
SubMethods == 1 .. NumSub

\* stress_misaligned_enable_all: every flag of every entry is cleared
stress_misaligned_enable_all == [i \in Methods |-> FALSE]

\* the handler's update of the table: only *current_method is disabled
HandlerDisable_none(d, cur) == d
HandlerDisable_all(d, cur) == [i \in Methods |-> TRUE]
HandlerDisable(d, cur) == [d EXCEPT ![cur] = TRUE]

\* for (info = &stress_misaligned_methods[1]; ...: where a call of
\* stress_misaligned_all starts, whatever *current_method is
AllStart_next(cur) == cur + 1
AllStart(cur) == 1

\* the skip test of the "all" loop
AllSkip_never(d, i) == FALSE
AllSkip(d, i) == d[i]

\* the tail of stress_misaligned_all: "all" is disabled when the static
\* flag says that no child ever ran
AllTail(d, ex) == IF ~ex THEN [d EXCEPT ![0] = TRUE] ELSE d

\* info->exercised = true, misaligned_method->exercised = true
MarkExercised_first(e, i) == [e EXCEPT ![1] = TRUE]
MarkExercised(e, i) == [e EXCEPT ![i] = TRUE]

\* the names stress_misaligned_exercised prints
ExercisedList(e) == {i \in SubMethods : e[i]}

\* the result of the loop when the configured method is found disabled
DisabledResult_success == EXIT_SUCCESS
DisabledResult == EXIT_NO_RESOURCE

MInit ==
    /\ RIdle
    /\ KIdle
    /\ OIdle
    /\ SIdle
    /\ LIdle
    /\ XIdle
    /\ DIdle
    /\ disabled = stress_misaligned_enable_all
    /\ exercised = stress_misaligned_enable_all
    /\ all_exercised = FALSE
    /\ misaligned_method \in Methods
    /\ current_method = misaligned_method
    /\ handled_signum = NoSignal
    /\ info = 1
    /\ mpc = "top"
    /\ mrc = EXIT_SUCCESS
    /\ mkeep = TRUE
    /\ returned = {}
    /\ pass_ran = FALSE
    /\ pass_done = {}
    /\ reported = {}
    /\ m_top_keep = TRUE
    /\ m_faults = 0

\* do { if (misaligned_method->disabled) { rc = EXIT_NO_RESOURCE; break; }
MLoopDisabled ==
    /\ mpc = "top"
    /\ disabled[misaligned_method]
    /\ mrc' = DisabledResult
    /\ mpc' = "exit"
    /\ UNCHANGED <<disabled, exercised, all_exercised, current_method,
                   misaligned_method, handled_signum, info, mkeep,
                   returned, pass_ran, pass_done, reported>>
    /\ UNCHANGED m_top_keep
    /\ UNCHANGED m_faults
    /\ MFrame

\* misaligned_method->func(buffer), the call itself
MLoopCall ==
    /\ mpc = "top"
    /\ ~disabled[misaligned_method]
    /\ IF misaligned_method = 0
          THEN /\ mpc' = "all_loop"
               /\ info' = AllStart(current_method)
               /\ pass_ran' = FALSE
               /\ pass_done' = {}
          ELSE /\ mpc' = "in_func"
               /\ UNCHANGED <<info, pass_ran, pass_done>>
    /\ UNCHANGED <<disabled, exercised, all_exercised, current_method,
                   misaligned_method, handled_signum, mrc, mkeep,
                   returned, reported>>
    /\ UNCHANGED m_top_keep
    /\ UNCHANGED m_faults
    /\ MFrame

\* for (info = &methods[1]; info->func; info++) { if (info->disabled) continue;
MAllSkip ==
    /\ mpc = "all_loop"
    /\ info <= NumSub
    /\ AllSkip(disabled, info)
    /\ info' = info + 1
    /\ UNCHANGED <<disabled, exercised, all_exercised, current_method,
                   misaligned_method, handled_signum, mpc, mrc, mkeep,
                   returned, pass_ran, pass_done, reported>>
    /\ UNCHANGED m_top_keep
    /\ UNCHANGED m_faults
    /\ MFrame

\* current_method = info; info->func(buffer), the call itself
MAllCall_keepcurrent ==
    /\ mpc = "all_loop"
    /\ info <= NumSub
    /\ ~AllSkip(disabled, info)
    /\ mpc' = "in_func"
    /\ UNCHANGED <<disabled, exercised, all_exercised, current_method,
                   misaligned_method, handled_signum, info, mrc, mkeep,
                   returned, pass_ran, pass_done, reported>>
    /\ UNCHANGED m_top_keep
    /\ UNCHANGED m_faults
    /\ MFrame

MAllCall_earlymark ==
    /\ mpc = "all_loop"
    /\ info <= NumSub
    /\ ~AllSkip(disabled, info)
    /\ current_method' = info
    /\ exercised' = [exercised EXCEPT ![info] = TRUE]
    /\ mpc' = "in_func"
    /\ UNCHANGED <<disabled, all_exercised,
                   misaligned_method, handled_signum, info, mrc, mkeep,
                   returned, pass_ran, pass_done, reported>>
    /\ UNCHANGED m_top_keep
    /\ UNCHANGED m_faults
    /\ MFrame

MAllCall ==
    /\ mpc = "all_loop"
    /\ info <= NumSub
    /\ ~AllSkip(disabled, info)
    /\ current_method' = info
    /\ mpc' = "in_func"
    /\ UNCHANGED <<disabled, exercised, all_exercised,
                   misaligned_method, handled_signum, info, mrc, mkeep,
                   returned, pass_ran, pass_done, reported>>
    /\ UNCHANGED m_top_keep
    /\ UNCHANGED m_faults
    /\ MFrame

\* the routine of a sub-method returns normally; under "all" the loop body
\* goes on with info->exercised = true; exercised = true; info++
MFuncReturn ==
    /\ mpc = "in_func"
    /\ returned' = returned \cup {IF misaligned_method = 0 THEN info
                                                         ELSE misaligned_method}
    /\ IF misaligned_method = 0
          THEN /\ exercised' = MarkExercised(exercised, info)
               /\ all_exercised' = TRUE
               /\ pass_ran' = TRUE
               /\ pass_done' = pass_done \cup {info}
               /\ info' = info + 1
               /\ mpc' = "all_loop"
          ELSE /\ mpc' = "ret"
               /\ UNCHANGED <<exercised, all_exercised, pass_ran, pass_done, info>>
    /\ UNCHANGED <<disabled, current_method, misaligned_method,
                   handled_signum, mrc, mkeep, reported>>
    /\ UNCHANGED m_top_keep
    /\ UNCHANGED m_faults
    /\ MFrame

\* the loop of stress_misaligned_all ends: if (!exercised) methods[0].disabled = true
MAllReturn ==
    /\ mpc = "all_loop"
    /\ info > NumSub
    /\ disabled' = AllTail(disabled, all_exercised)
    /\ mpc' = "ret"
    /\ UNCHANGED <<exercised, all_exercised, current_method,
                   misaligned_method, handled_signum, info, mrc, mkeep,
                   returned, pass_ran, pass_done, reported>>
    /\ UNCHANGED m_top_keep
    /\ UNCHANGED m_faults
    /\ MFrame

\* SIGBUS, SIGILL or SIGSEGV raised by the executing routine:
\* stress_misaligned_handler, siglongjmp to the sigsetjmp in front of the
\* loop, rc = EXIT_SUCCESS, and the loop is entered again (no test of
\* keep_stressing in between)
MFault(sig) ==
    /\ mpc = "in_func"
    /\ handled_signum' = sig
    /\ disabled' = HandlerDisable(disabled, current_method)
    /\ mrc' = EXIT_SUCCESS
    /\ mpc' = "top"
    /\ UNCHANGED <<exercised, all_exercised, current_method,
                   misaligned_method, info, mkeep, returned, pass_ran,
                   pass_done, reported>>
    /\ m_top_keep' = mkeep
    /\ m_faults' = m_faults + 1
    /\ MFrame

\* misaligned_method->exercised = true; inc_counter(args);
MLoopAfterCall ==
    /\ mpc = "ret"
    /\ exercised' = MarkExercised(exercised, misaligned_method)
    /\ mpc' = "cond"
    /\ UNCHANGED <<disabled, all_exercised, current_method,
                   misaligned_method, handled_signum, info, mrc, mkeep,
                   returned, pass_ran, pass_done, reported>>
    /\ UNCHANGED m_top_keep
    /\ UNCHANGED m_faults
    /\ MFrame

\* } while (keep_stressing(args));
MLoopCond ==
    /\ mpc = "cond"
    /\ mpc' = IF mkeep THEN "top" ELSE "exit"
    /\ UNCHANGED <<disabled, exercised, all_exercised, current_method,
                   misaligned_method, handled_signum, info, mrc, mkeep,
                   returned, pass_ran, pass_done, reported>>
    /\ m_top_keep' = IF mkeep THEN mkeep ELSE m_top_keep
    /\ UNCHANGED m_faults
    /\ MFrame

\* default handlers restored, stress_misaligned_exercised, return rc
MFinish ==
    /\ mpc = "exit"
    /\ reported' = ExercisedList(exercised)
    /\ mpc' = "done"
    /\ UNCHANGED <<disabled, exercised, all_exercised, current_method,
                   misaligned_method, handled_signum, info, mrc, mkeep,
                   returned, pass_ran, pass_done>>
    /\ UNCHANGED m_top_keep
    /\ UNCHANGED m_faults
    /\ MFrame

\* the outer harness ends the run: keep_stressing turns false
MStop ==
    /\ mkeep
    /\ mpc # "done"
    /\ mkeep' = FALSE
    /\ UNCHANGED <<disabled, exercised, all_exercised, current_method,
                   misaligned_method, handled_signum, info, mpc, mrc,
                   returned, pass_ran, pass_done, reported>>
    /\ UNCHANGED m_top_keep
    /\ UNCHANGED m_faults
    /\ MFrame

MStep ==
    \/ MLoopDisabled
    \/ MLoopCall
    \/ MAllSkip
    \/ MAllCall
    \/ MFuncReturn
    \/ MAllReturn
    \/ \E sig \in FaultSignals : MFault(sig)
    \/ MLoopAfterCall
    \/ MLoopCond
    \/ MFinish

MNext == MStep \/ MStop

SpecMisaligned == MInit /\ [][MNext]_vars

\* the worker is scheduled: a step of its own code that is possible is
\* eventually taken
SpecMisalignedFair == MInit /\ [][MNext]_vars /\ WF_vars(MStep)

\* ----------------------------------------------------------------------
\* The two method-dispatch engines: a worker runs stress_misaligned or
\* stress_cacheline, the other stressor stays as it was constructed
\* ----------------------------------------------------------------------
DispatchInit == MInit \/ KInit

DispatchNext ==
    \/ KIdle /\ MNext
    \/ MIdle /\ KNext

SpecDispatch == DispatchInit /\ [][DispatchNext]_vars

\* C13 as claimed: a call of "all" that returns without a sub-method
\* failure has executed every enabled sub-method: in stress_misaligned_all
\* every entry that is not disabled has returned in this call, and in
\* stress_cacheline_all entries 1 .. n-1 have all been invoked.
C13_Claim ==
    /\ (misaligned_method = 0 /\ mpc = "ret") =>
           \A i \in SubMethods : ~disabled[i] => i \in pass_done
    /\ \A x \in Roles :
           (cacheline_method = 0 /\ cl_pc[x] = "after"
                /\ cl_rc[x] = EXIT_SUCCESS) =>
               Len(cl_invoked[x]) = cacheline_methods_n - 1

\* C13 amended: the same for stress_misaligned_all; a call of
\* stress_cacheline_all that returns EXIT_SUCCESS has invoked entries
\* 1 .. n-1 provided keep_stressing still holds when it returns; a call
\* during which the stop condition was set may return EXIT_SUCCESS having
\* invoked only a prefix of the table.
C13_Amended ==
    /\ (misaligned_method = 0 /\ mpc = "ret") =>
           \A i \in SubMethods : ~disabled[i] => i \in pass_done
    /\ \A x \in Roles :
           (cacheline_method = 0 /\ cl_pc[x] = "after"
                /\ cl_rc[x] = EXIT_SUCCESS /\ cl_keep[x]) =>
               /\ Len(cl_invoked[x]) = cacheline_methods_n - 1
               /\ InTableOrder(cl_invoked[x])

\* a call of "all" of the cacheline primary has returned EXIT_SUCCESS
\* with the stop condition unset
C13_Witness ==
    /\ cacheline_method = 0
    /\ cl_pc["primary"] = "after"
    /\ cl_rc["primary"] = EXIT_SUCCESS
    /\ cl_keep["primary"]
    /\ Len(cl_invoked["primary"]) = cacheline_methods_n - 1

\* ----------------------------------------------------------------------
\* The two fork-and-reap coordinators: a worker runs stress_cacheline or
\* stress_rawsock, the other stressor stays as it was constructed
\* ----------------------------------------------------------------------
CoordInit == KInit \/ RInit

CoordNext ==
    \/ RIdle /\ KNext
    \/ KIdle /\ RNext

SpecCoord == CoordInit /\ [][CoordNext]_vars

\* C14: once fork has succeeded, a worker function that has returned has
\* first sent the terminating signal to its secondary and then reaped it,
\* in this order and once each, and the secondary is gone (exited or
\* killed); while nothing has been reaped the function has not returned.
C14_KillThenReap ==
    /\ cl_pc["secondary"] # "none" =>
           /\ cl_pc["primary"] = "done" =>
                  /\ cl_events = <<"kill", "reap">>
                  /\ cl_pc["secondary"] = "exited"
           /\ cl_pc["primary"] # "done" => cl_events \in {<<>>, <<"kill">>}
    /\ \A i \in Instances :
           cpc[i] # "none" =>
               /\ ppc[i] = "done" =>
                      /\ pevents[i] = <<"kill", "reap">>
                      /\ cpc[i] \in {"exited", "killed"}
               /\ ppc[i] # "done" => pevents[i] = <<>>

\* stress_cacheline has returned after a fork that succeeded
C14_Witness ==
    /\ cl_pc["primary"] = "done"
    /\ cl_pc["secondary"] = "exited"
    /\ cl_events = <<"kill", "reap">>

\* C15 as claimed: when the secondary has exited with a code other than
\* EXIT_SUCCESS, the result returned by the worker function (stress_cacheline,
\* stress_rawsock) is that code.
C15_Claim ==
    /\ (cl_pc["primary"] = "done" /\ status \notin {"none", EXIT_SUCCESS})
           => cl_ret = status
    /\ \A i \in Instances :
           (ppc[i] = "done" /\ cstatus[i] \notin {"none", EXIT_SUCCESS})
               => rrc[i] = cstatus[i]

\* C16: a secondary that has exited (its loop ended on the stop condition,
\* on a failure of a routine, of sendto or of socket) has sent SIGALRM to
\* its primary, so the primary's keep_stressing is false; from then on the
\* primary begins no new iteration: the cacheline primary does not come back
\* to the head of its do loop and starts no further entry of "all", and the
\* rawsock receiver does not call recvfrom again.
C16_CompletionSignal ==
    /\ [](/\ cl_pc["secondary"] = "exited" => ~cl_keep["primary"]
          /\ \A i \in Instances : cpc[i] = "exited" => ~pkeep[i])
    /\ [][/\ cl_pc["secondary"] = "exited" =>
                /\ cl_pc["primary"] # "loop" => cl_pc'["primary"] # "loop"
                /\ cl_pc["primary"] = "all_top" => cl_pc'["primary"] # "in_func"
          /\ \A i \in Instances :
                (cpc[i] = "exited" /\ ppc[i] # "in_recv")
                    => ppc'[i] # "in_recv"]_vars

\* the secondary has exited while the cacheline primary is inside a routine
\* with the iteration in progress
C16_Witness ==
    /\ cl_pc["secondary"] = "exited"
    /\ cl_pc["primary"] = "in_func"
    /\ ~cl_keep["primary"]

\* C17 as claimed: a failed fork is tried again only while the stop
\* condition is unset, and when the retry loop ends without a child the
\* worker function returns EXIT_NO_RESOURCE, or EXIT_SUCCESS with the stop
\* condition set (stress_cacheline and stress_rawsock alike).
C17_Claim ==
    [][/\ cl_forks' > cl_forks => cl_keep["primary"]
       /\ (cl_pc["primary"] = "fork" /\ cl_pc'["primary"] = "done") =>
              \/ cl_ret' = EXIT_NO_RESOURCE
              \/ cl_ret' = EXIT_SUCCESS /\ ~cl_keep["primary"]
       /\ \A i \in Instances :
              /\ pforks'[i] > pforks[i] => pkeep[i]
              /\ (ppc[i] = "fork" /\ ppc'[i] = "done") =>
                     \/ rrc'[i] = EXIT_NO_RESOURCE
                     \/ rrc'[i] = EXIT_SUCCESS /\ ~pkeep[i]]_vars

\* C18 as claimed: a worker function that has returned after a fork
\* failure with the stop condition unset, after a failure of socket() in
\* the receiver or in the sender, or without a readiness lock, has
\* returned EXIT_NO_RESOURCE.
C18_Claim ==
    /\ (cl_pc["primary"] = "done" /\ cl_pc["secondary"] = "none"
            /\ cl_keep["primary"]) => cl_ret = EXIT_NO_RESOURCE
    /\ \A i \in Instances :
           (ppc[i] = "done"
                /\ (pfail[i] \in {"fork", "lock", "sock"}
                        \/ cstatus[i] = EXIT_FAILURE))
               => rrc[i] = EXIT_NO_RESOURCE

\* ----------------------------------------------------------------------
\* stress-cacheline.c: the routines, one call by a single process (no
\* other process writes the region)
\* ----------------------------------------------------------------------

\* for (i = 0; i < 1024; i++) of every routine
Batches == 1024

\* the routines whose val8 is initialised from *data8 before the loop:
\* adjacent, atomicinc, inc, rdwr
ValFromStart == {1, 2, 5, 10}

\* (*data8)++ on a uint8_t
Inc8_nowrap(v) == v + 1
Inc8(v) == (v + 1) % 256

\* the seven increments of one batch of adjacent, atomicinc and inc
Inc7(v) == Inc8(Inc8(Inc8(Inc8(Inc8(Inc8(Inc8(v)))))))

\* 8 bit rotate right
ROR8(v) == (v \div 2) + ((v % 2) * 128)

\* 8 bit rotate left
ROL8_nocarry(v) == (v * 2) % 256
ROL8(v) == ((v * 2) % 256) + (v \div 128)

\* (data)++; ROL8(data); ROR8(data)
EXERCISE(v) == ROR8(ROL8(Inc8(v)))

\* 1U << (i & 7)
Bit(i) == 2 ^ (i % 8)

\* val8 ^= 0xff on a uint8_t
Xor255(v) == 255 - v

\* *data8 after one batch of routine m
BatchData(m, d, adj, t, i) ==
    CASE m \in {1, 2, 5} -> Inc7(d)
      [] m = 3 -> Xor255(Bit(i))
      [] m = 4 -> adj
      [] m = 6 -> EXERCISE(t)
      [] m \in {7, 8, 9} -> Inc8(d)
      [] m = 10 -> d

\* val8 at the test that ends one batch of routine m; d1 is *data8 where
\* the routine reads it into val8
BatchVal(m, v, d1, t, i) ==
    CASE m \in {1, 2, 5} -> (v + 7) % 256
      [] m = 3 -> Xor255(Bit(i))
      [] m = 4 -> d1
      [] m = 6 -> EXERCISE(t)
      [] m \in {7, 8, 9} -> d1
      [] m = 10 -> v

OInit ==
    /\ MIdle
    /\ RIdle
    /\ KIdle
    /\ SIdle
    /\ LIdle
    /\ XIdle
    /\ DIdle
    /\ o_method \in 1 .. (cacheline_methods_n - 1)
    /\ o_start \in 0 .. 255
    /\ o_adj \in IF o_method = 4 THEN {0, 255} ELSE {0}
    /\ o_i = 0
    /\ o_data = o_start
    /\ o_val = IF o_method \in ValFromStart THEN o_start ELSE Unset
    /\ o_tmp = tmp_init
    /\ o_rc = "running"

\* one batch: the memory operations, the prediction and the test
\* if (UNLIKELY(*data8 != val8)) return EXIT_FAILURE;
OBatch ==
    /\ o_rc = "running"
    /\ o_i < Batches
    /\ LET d == BatchData(o_method, o_data, o_adj, o_tmp, o_i)
           v == BatchVal(o_method, o_val, d, o_tmp, o_i)
       IN  /\ o_data' = d
           /\ o_val' = v
           /\ o_tmp' = IF o_method = 6 /\ d = v THEN v ELSE o_tmp
           /\ IF d # v
                 THEN /\ o_rc' = EXIT_FAILURE
                      /\ UNCHANGED o_i
                 ELSE /\ o_i' = o_i + 1
                      /\ UNCHANGED o_rc
    /\ UNCHANGED <<o_method, o_start, o_adj>>
    /\ OFrame

\* the loop has ended: return EXIT_SUCCESS
OReturn ==
    /\ o_rc = "running"
    /\ o_i = Batches
    /\ o_rc' = EXIT_SUCCESS
    /\ UNCHANGED <<o_method, o_start, o_adj, o_i, o_data, o_val, o_tmp>>
    /\ OFrame

ONext == OBatch \/ OReturn

SpecOracle == OInit /\ [][ONext]_vars

\* C19: in a call of any routine by a single process, from any initial
\* byte, no batch finds the byte different from the prediction: the routine
\* never returns EXIT_FAILURE, after every batch *data8 = val8, after k
\* batches of adjacent, atomicinc and inc the byte is (start + 7k) mod 256,
\* under rdwr it stays the initial byte, and EXIT_SUCCESS is returned only
\* after all 1024 batches.
C19_OracleSound ==
    /\ o_rc # EXIT_FAILURE
    /\ o_data \in 0 .. 255
    /\ o_i > 0 => o_data = o_val
    /\ o_method \in {1, 2, 5} => o_data = (o_start + 7 * o_i) % 256
    /\ o_method = 10 => o_data = o_start
    /\ o_rc = EXIT_SUCCESS => o_i = Batches

\* stress_cacheline_inc has done its 1024 batches from the byte 255, which
\* wrapped around on the first increment, and has returned EXIT_SUCCESS
C19_Witness ==
    /\ o_method = 5
    /\ o_start = 255
    /\ o_i = Batches
    /\ o_rc = EXIT_SUCCESS

\* ----------------------------------------------------------------------
\* The method setters of stress-cacheline.c and stress-misaligned.c
\* ----------------------------------------------------------------------

\* the names of cacheline_methods[], in table order
cacheline_names ==
    <<"all", "adjacent", "atomicinc", "bits", "copy", "inc", "mix",
      "rdfwd64", "rdints", "rdrev64", "rdwr">>

\* the names of stress_misaligned_methods[], in table order, of a build
\* that has ATOMIC_INC and HAVE_INT128_T
misaligned_names ==
    <<"all", "int16rd", "int16wr", "int16inc", "int16atomic",
      "int32rd", "int32wr", "int32inc", "int32atomic",
      "int64rd", "int64wr", "int64inc", "int64atomic",
      "int128rd", "int128wr", "int128inc", "int128atomic">>

\* the names a user may pass to a setter
SomeNames ==
    {cacheline_names[k] : k \in 1 .. Len(cacheline_names)} \cup
    {misaligned_names[k] : k \in 1 .. Len(misaligned_names)} \cup
    {"", "ALL", "int8rd"}

\* the loop over the table with strcmp: the index (from 0) of the first
\* entry named name, Unset when the loop ends without a match
Lookup_default(names, name) ==
    IF \E k \in 1 .. Len(names) : names[k] = name
    THEN (CHOOSE k \in 1 .. Len(names) :
              /\ names[k] = name
              /\ \A j \in 1 .. (k - 1) : names[j] # name) - 1
    ELSE 0
Lookup(names, name) ==
    IF \E k \in 1 .. Len(names) : names[k] = name
    THEN (CHOOSE k \in 1 .. Len(names) :
              /\ names[k] = name
              /\ \A j \in 1 .. (k - 1) : names[j] # name) - 1
    ELSE Unset

\* stress_get_setting leaves the caller's default where no setting is stored
stress_get_setting(setting, default) ==
    IF setting = Unset THEN default ELSE setting

\* the body shared by the two setters
SetMethod(reg, names, name, setting) ==
    /\ resolved = <<>>
    /\ set_reg' = reg
    /\ set_name' = name
    /\ IF Lookup(names, name) # Unset
       THEN /\ setting' = Lookup(names, name)
            /\ set_ret' = 0
            /\ set_stderr' = <<>>
       ELSE /\ setting' = setting
            /\ set_ret' = -1
            /\ set_stderr' = names
    /\ UNCHANGED resolved
    /\ SFrame

\* stress_set_cacheline_method(name)
stress_set_cacheline_method(name) ==
    /\ SetMethod("cacheline", cacheline_names, name, setting_cacheline)
    /\ UNCHANGED setting_misaligned

\* stress_set_misaligned_method(name)
stress_set_misaligned_method(name) ==
    /\ SetMethod("misaligned", misaligned_names, name, setting_misaligned)
    /\ UNCHANGED setting_cacheline

\* the stressors start: size_t cacheline_method = 0 and misaligned_method =
\* &stress_misaligned_methods[0], then stress_get_setting
SResolve ==
    /\ resolved = <<>>
    /\ resolved' = <<stress_get_setting(setting_cacheline, 0),
                     stress_get_setting(setting_misaligned, 0)>>
    /\ UNCHANGED <<setting_cacheline, setting_misaligned, set_reg, set_name,
                   set_ret, set_stderr>>
    /\ SFrame

SInit ==
    /\ MIdle
    /\ RIdle
    /\ KIdle
    /\ OIdle
    /\ SIdle
    /\ LIdle
    /\ XIdle
    /\ DIdle

SNext ==
    \/ \E name \in SomeNames : stress_set_cacheline_method(name)
    \/ \E name \in SomeNames : stress_set_misaligned_method(name)
    \/ SResolve

SpecSetter == SInit /\ [][SNext]_vars

\* the names of a table are pairwise different
UniqueNames(names) ==
    \A j, k \in 1 .. Len(names) : names[j] = names[k] => j = k

\* the table and the setting of the setter called last
LastNames == IF set_reg = "cacheline" THEN cacheline_names ELSE misaligned_names
LastSetting ==
    IF set_reg = "cacheline" THEN setting_cacheline ELSE setting_misaligned

\* C23: the names of each table are unique; a setter called with a name of
\* its table returns 0 and stores the one entry of that name; called with
\* any other name it lists the names of the table, returns -1 and leaves
\* the stored settings as they were; a stressor with no stored setting
\* starts with entry 0 ("all"), any other with the stored entry.
C23_MethodResolution ==
    /\ [](/\ UniqueNames(cacheline_names)
          /\ UniqueNames(misaligned_names)
          /\ cacheline_names[1] = "all"
          /\ misaligned_names[1] = "all")
    /\ [](set_reg # "none" =>
            /\ set_ret = 0 =>
                  /\ LastSetting \in 0 .. (Len(LastNames) - 1)
                  /\ \A k \in 1 .. Len(LastNames) :
                         LastNames[k] = set_name <=> k = LastSetting + 1
                  /\ set_stderr = <<>>
            /\ set_ret # 0 =>
                  /\ set_ret = -1
                  /\ \A k \in 1 .. Len(LastNames) : LastNames[k] # set_name
                  /\ set_stderr = LastNames)
    /\ [](resolved # <<>> =>
            /\ resolved[1] = IF setting_cacheline = Unset
                             THEN 0 ELSE setting_cacheline
            /\ resolved[2] = IF setting_misaligned = Unset
                             THEN 0 ELSE setting_misaligned)
    /\ [][set_ret' = -1 =>
              /\ setting_cacheline' = setting_cacheline
              /\ setting_misaligned' = setting_misaligned]_vars

\* a method was stored, a setter was then called with an unknown name and
\* the stressors have started
C23_Witness ==
    /\ set_ret = -1
    /\ set_stderr = misaligned_names
    /\ setting_misaligned = 3
    /\ setting_cacheline = Unset
    /\ resolved = <<0, 3>>

\* C24 as claimed: the keep-running condition is tested at the top of
\* every outer iteration of the cacheline worker loop and of the misaligned
\* dispatch loop, re-entry after a trapped fault included: a process is
\* inside a test routine only if the condition held when it came to the
\* top of the iteration that invoked the routine.
C24_Claim ==
    /\ mpc = "in_func" => m_top_keep
    /\ \A x \in Roles :
           (cl_pc[x] = "in_func" /\ cacheline_method # 0) => cl_top_keep[x]

\* C25: a process that has done the memory operations of a batch goes on to
\* the test of that batch: it leaves the state between the two only by the
\* test, it is never outside a routine (returned, exited or ended by the
\* primary's signal) with a test outstanding, and the test is reached, also
\* when the stop condition is set between the operations and the test.
C25_BatchAtomicity ==
    /\ [](\A x \in Roles : cl_stage[x] = "ops" => cl_pc[x] = "in_func")
    /\ [][\A x \in Roles :
             cl_stage[x] = "ops" =>
                 (cl_stage'[x] \in {"ops", "tested"} /\ cl_pc'[x] # "exited")]_vars
    /\ \A x \in Roles : (cl_stage[x] = "ops") ~> (cl_stage[x] = "tested")

\* the stop condition was set for the secondary between the operations and
\* the test of a batch, and the batch has been tested
C25_Witness ==
    /\ cl_midstop["secondary"]
    /\ ~cl_keep["secondary"]
    /\ cl_stage["secondary"] = "tested"

\* C26: the exercised flag of a sub-method entry is set exactly when its
\* routine has returned normally at least once in this run (the statement
\* that sets the flag follows the return, so the flag of the configured
\* method is looked at once that statement is done); a routine that only
\* ever trapped leaves its flag clear, a fault changes no exercised flag,
\* and at the start of the run both flags of every entry are clear.
C26_ExercisedMeaning ==
    /\ [](\A i \in SubMethods :
             /\ exercised[i] => i \in returned
             /\ (i \in returned /\ ~(mpc = "ret" /\ misaligned_method = i))
                    => exercised[i])
    /\ [][mpc = "in_func" /\ mpc' = "top" => exercised' = exercised]_vars
    /\ (\A i \in Methods : ~disabled[i] /\ ~exercised[i])

\* a sub-method trapped on its first invocation and is not marked, another
\* one has returned and is marked
C26_Witness ==
    \E i, j \in SubMethods :
        /\ disabled[i] /\ i \notin returned /\ ~exercised[i]
        /\ j \in returned /\ exercised[j]
        /\ mpc = "done"

\* C27: on every 8-bit value rotate-right undoes rotate-left, so EXERCISE
\* maps x to (x + 1) mod 256; in stress_cacheline_mix the shared byte and
\* val8 agree after every batch, tmp after i batches is the seed plus i
\* mod 256, so it is back at the seed exactly every 256 batches and at the
\* end of the call of 1024 batches (0xa5 on the first call).
C27_MixTransform ==
    /\ ROR8(ROL8(o_start)) = o_start
    /\ EXERCISE(o_start) = (o_start + 1) % 256
    /\ o_method = 6 =>
           /\ o_rc # EXIT_FAILURE
           /\ o_tmp = (tmp_init + o_i) % 256
           /\ o_i > 0 => (o_data = o_tmp /\ o_val = o_tmp)
           /\ o_tmp = tmp_init <=> o_i % 256 = 0
           /\ o_i = Batches => o_tmp = tmp_init

\* the first call of stress_cacheline_mix has returned after 1024 batches
C27_Witness ==
    /\ o_method = 6
    /\ o_i = Batches
    /\ o_rc = EXIT_SUCCESS
    /\ o_tmp = tmp_init
    /\ o_start = 255

\* the worker, running "all", invokes the first routine after a fault of
\* sub-method *current_method was contained
ResumeCall ==
    /\ misaligned_method = 0
    /\ mpc = "all_loop"
    /\ mpc' = "in_func"
    /\ current_method \in SubMethods
    /\ disabled[current_method]

\* entry n is enabled and every entry from entry from to n - 1 is disabled
FirstEnabledFrom(from, n) ==
    /\ n >= from
    /\ ~disabled[n]
    /\ \A k \in from .. (n - 1) : disabled[k]

\* C29 as claimed: running "all", the first routine invoked after a
\* contained fault in sub-method m is the next enabled entry that follows
\* m in table order.
C29_Claim ==
    [][ResumeCall => FirstEnabledFrom(current_method + 1, current_method')]_vars

\* C29 amended: running "all", the call of stress_misaligned_all that
\* follows a contained fault in sub-method m starts again at entry 1: the
\* first routine invoked after the resume is the first enabled entry of
\* the table, which is the next enabled entry after m only when every
\* entry in front of m is disabled.
C29_Amended ==
    [][ResumeCall =>
          /\ FirstEnabledFrom(1, current_method')
          /\ FirstEnabledFrom(current_method + 1, current_method')
                 <=> \A k \in 1 .. current_method : disabled[k]]_vars

\* sub-method 1 returned and sub-method 2 trapped in the first call of
\* "all"; in the call after the resume the routine of entry 1 is executing
\* again and entry 3 has not run yet
C29_Witness ==
    /\ misaligned_method = 0
    /\ mpc = "in_func"
    /\ current_method = 1
    /\ disabled = [i \in Methods |-> i = 2]
    /\ returned = {1}
    /\ pass_done = {}

\* ----------------------------------------------------------------------
\* The routines of stress-cacheline.c in two processes of one instance,
\* one memory access at a time on one shared memory
\* ----------------------------------------------------------------------

\* seq repeated n times
RECURSIVE Rep(_, _)
Rep(n, seq) == IF n = 0 THEN <<>> ELSE seq \o Rep(n - 1, seq)

\* the statements in front of the loop of routine m, as accesses:
\* register uint8_t val8 = *(data8) in adjacent, atomicinc, inc and rdwr
Prologue(m) == IF m \in ValFromStart THEN <<"ld_val">> ELSE <<>>

\* (*data8)++ on a volatile: a load and a store
IncOps == <<"ld_reg", "st_inc">>

\* one batch of routine m, as accesses and register operations:
\*   ld_reg   reg = *data8            st_inc   *data8 = reg + 1
\*   ld_own   (void)*data8            st_reg   *data8 = reg
\*   ld_adj   (void)*data8adjacent    adj_reg  reg = *data8adjacent
\*   ld_val   val8 = *data8           st_val   *data8 = val8
\*   ld_wide  the reads of 2 to 16 bytes or of the whole line, dropped
\*   at_inc   SHIM_ATOMIC_INC(data8)  st_tmp   *data8 = tmp
\*   st_rol, st_ror   the store that ends ROL8(*data8), ROR8(*data8)
\*   cmp      if (*data8 != val8) return EXIT_FAILURE
\*   the others change val8 or tmp only
Body(m) ==
    CASE m = 1 -> Rep(7, IncOps \o <<"ld_adj">>) \o <<"val_add7", "cmp">>
      [] m = 2 -> Rep(7, <<"at_inc">>) \o <<"val_add7", "cmp">>
      [] m = 3 -> <<"ld_own", "val_bit", "st_val", "cmp",
                    "val_xor", "st_val", "cmp">>
      [] m = 4 -> Rep(8, <<"adj_reg", "st_reg">>) \o <<"ld_val", "cmp">>
      [] m = 5 -> Rep(7, IncOps) \o <<"val_add7", "cmp">>
      [] m = 6 -> <<"st_tmp", "ld_reg", "st_inc", "ld_reg", "st_rol",
                    "ld_reg", "st_ror", "val_mix", "cmp_tmp">>
      [] m \in {7, 8, 9} -> IncOps \o <<"ld_val", "ld_wide", "cmp">>
      [] m = 10 -> Rep(16, <<"ld_own", "ld_reg", "st_reg">>) \o <<"cmp">>

Program(m) == Prologue(m) \o Body(m)

\* the byte an access of the process with index idx goes to
Target(op, idx) == IF op \in {"ld_adj", "adj_reg"} THEN Adjacent(idx) ELSE idx

\* the index each process passes to its routine; instance 0
XIndex_same(x) == Index(0, "primary")
XIndex(x) == Index(0, x)

\* the byte a store leaves in memory
Stored(op, reg, val, tmp) ==
    CASE op = "st_inc" -> Inc8(reg)
      [] op = "st_reg" -> reg
      [] op = "st_val" -> val
      [] op = "st_tmp" -> tmp
      [] op = "st_rol" -> ROL8(reg)
      [] op = "st_ror" -> ROR8(reg)

Stores == {"st_inc", "st_reg", "st_val", "st_tmp", "st_rol", "st_ror"}
Compares == {"cmp", "cmp_tmp"}

\* the bytes the shared region may hold when the routines are called
StartBytes == {0, 255}

XInit ==
    /\ MIdle
    /\ RIdle
    /\ KIdle
    /\ OIdle
    /\ SIdle
    /\ LIdle
    /\ DIdle
    /\ x_mem \in [0 .. 1 -> StartBytes]
    /\ x_m \in [Roles -> 1 .. (cacheline_methods_n - 1)]
    /\ x_pc = [x \in Roles |-> 1]
    /\ x_i = [x \in Roles |-> 0]
    /\ x_val = [x \in Roles |-> 0]
    /\ x_reg = [x \in Roles |-> 0]
    /\ x_tmp = [x \in Roles |-> tmp_init]
    /\ x_rc = [x \in Roles |-> "running"]

\* process x does the next access or register operation of its routine; a
\* test that finds the values equal ends the batch: i++, and after the last
\* batch return EXIT_SUCCESS
XStep(x) ==
    /\ x_rc[x] = "running"
    /\ LET op == Program(x_m[x])[x_pc[x]]
           a == Target(op, XIndex(x))
           equal == x_mem[a] = x_val[x]
       IN  /\ x_mem' = IF op \in Stores
                          THEN [x_mem EXCEPT ![a] =
                                   Stored(op, x_reg[x], x_val[x], x_tmp[x])]
                       ELSE IF op = "at_inc"
                          THEN [x_mem EXCEPT ![a] = Inc8(@)]
                       ELSE x_mem
           /\ x_reg' = IF op \in {"ld_reg", "adj_reg"}
                          THEN [x_reg EXCEPT ![x] = x_mem[a]]
                          ELSE x_reg
           /\ x_val' = [x_val EXCEPT ![x] =
                           CASE op = "ld_val" -> x_mem[a]
                             [] op = "val_add7" -> (@ + 7) % 256
                             [] op = "val_bit" -> Bit(x_i[x])
                             [] op = "val_xor" -> Xor255(@)
                             [] op = "val_mix" -> EXERCISE(x_tmp[x])
                             [] OTHER -> @]
           /\ x_tmp' = IF op = "cmp_tmp" /\ equal
                          THEN [x_tmp EXCEPT ![x] = x_val[x]]
                          ELSE x_tmp
           /\ IF op \in Compares /\ ~equal
                 THEN /\ x_rc' = [x_rc EXCEPT ![x] = EXIT_FAILURE]
                      /\ UNCHANGED <<x_pc, x_i>>
              ELSE IF x_pc[x] < Len(Program(x_m[x]))
                 THEN /\ x_pc' = [x_pc EXCEPT ![x] = @ + 1]
                      /\ UNCHANGED <<x_i, x_rc>>
              ELSE IF x_i[x] + 1 < NumBatch
                 THEN /\ x_pc' = [x_pc EXCEPT ![x] = Len(Prologue(x_m[x])) + 1]
                      /\ x_i' = [x_i EXCEPT ![x] = @ + 1]
                      /\ UNCHANGED x_rc
              ELSE /\ x_rc' = [x_rc EXCEPT ![x] = EXIT_SUCCESS]
                   /\ x_i' = [x_i EXCEPT ![x] = @ + 1]
                   /\ UNCHANGED x_pc
    /\ UNCHANGED x_m
    /\ XFrame

XNext == \E x \in Roles : XStep(x)

SpecContention == XInit /\ [][XNext]_vars

\* C31: whatever routines the primary and the secondary run at the same
\* time on their two adjacent bytes, and however their loads and stores
\* interleave, no routine returns EXIT_FAILURE: the byte a process compares
\* with its prediction is stored to by that process only.
C31_NoFalseMismatch ==
    /\ [](\A x \in Roles : x_rc[x] # EXIT_FAILURE)
    /\ [][\A x \in Roles :
             x_mem'[XIndex(x)] # x_mem[XIndex(x)] =>
                 (x_pc'[x] # x_pc[x] \/ x_rc'[x] # x_rc[x])]_vars

\* the primary ran copy while the secondary ran inc: both have returned
\* EXIT_SUCCESS and the primary's byte holds a value the secondary wrote in
\* the middle of its batch
C31_Witness ==
    /\ x_m = [x \in Roles |-> IF x = "primary" THEN 4 ELSE 5]
    /\ \A x \in Roles : x_rc[x] = EXIT_SUCCESS
    /\ x_mem[1] = 7
    /\ x_mem[0] = 3

\* the entries that are not disabled
EnabledEntries == {i \in Methods : ~disabled[i]}

\* C32: every trapped fault takes an entry out of the set of enabled
\* entries and puts none in, so a run traps no more faults than the table
\* has entries; and once the stop condition is set, or once the configured
\* method is disabled, the worker leaves the dispatch loop, restores the
\* default handlers, reports and returns.
C32_BoundedFaults ==
    /\ [][m_faults' # m_faults =>
              /\ EnabledEntries' \subseteq EnabledEntries
              /\ EnabledEntries' # EnabledEntries]_vars
    /\ [](/\ m_faults <= Cardinality(Methods)
          /\ m_faults <= Cardinality(Methods \ EnabledEntries))
    /\ (~mkeep) ~> (mpc = "done")
    /\ (disabled[misaligned_method]) ~> (mpc = "done")

\* running "all", every sub-method has trapped once and the worker has
\* returned
C32_Witness ==
    /\ misaligned_method = 0
    /\ m_faults = NumSub
    /\ \A i \in SubMethods : disabled[i]
    /\ mpc = "done"

\* both processes of the cacheline worker are gone: stress_cacheline has
\* returned and there is no secondary left
BothTerminated ==
    /\ cl_pc["primary"] = "done"
    /\ cl_pc["secondary"] \in {"none", "exited"}

\* C33: with every process scheduled fairly, once the stop condition is
\* set for the primary, or once a routine of either process has found a
\* mismatch, stress_cacheline returns and the secondary has exited; the
\* primary is in its wait only after it has signalled the secondary, so
\* that neither waits for the other for ever.
C33_WorkerTermination ==
    /\ (~cl_keep["primary"] \/ \E x \in Roles : cl_mismatch[x])
           ~> BothTerminated
    /\ [](cl_pc["primary"] = "wait" =>
             (~cl_keep["secondary"] \/ cl_pc["secondary"] = "exited"))

\* a routine of the primary found a mismatch while the secondary was in a
\* routine, and both processes have terminated
C33_Witness ==
    /\ cl_mismatch["primary"]
    /\ ~cl_mismatch["secondary"]
    /\ BothTerminated
    /\ cl_events = <<"kill", "reap">>
    /\ cl_midstop["secondary"]

\* ======================================================================
\* stress-dirmany.c
\* ======================================================================

\* stress_dirmany_filename: pathname, '/', filename_len times 'x', n as 16
\* hex digits.  pathname is the same in every call of a run, so that the
\* name is told by the padding and the number; the branch without the path
\* needs a padding longer than any that open() accepts and is not reached
\* while filename_len stays at or below d_fit + 1.
stress_dirmany_filename(filename_len, n) == <<filename_len, n>>

\* open(filename, O_CREAT | ...) of a name with this padding: ENAMETOOLONG
\* when the padding is longer than the file system takes, any other
\* failure whenever it likes
OpenResults(filename_len, fit) ==
    IF filename_len > fit THEN {"ENAMETOOLONG"} ELSE {"fd", "error"}

\* if (filename_len < max_len) filename_len++, in both phases
NextLen(filename_len, max_len) ==
    IF filename_len < max_len THEN filename_len + 1 ELSE filename_len

\* size_t filename_len = 1 of stress_dirmany_remove
remove_first_len == 1

DInit ==
    /\ MIdle
    /\ RIdle
    /\ KIdle
    /\ OIdle
    /\ SIdle
    /\ LIdle
    /\ XIdle
    /\ d_pc = "create"
    /\ d_keep = TRUE
    /\ d_fit \in 0 .. MaxLen
    /\ d_i_start = 0
    /\ d_i_end = 0
    /\ d_i = 0
    /\ d_filename_len = 1
    /\ d_max_len = MaxLen
    /\ d_files = {}
    /\ d_created = {}
    /\ d_removed = {}
    /\ d_iter = 0

\* stress_dirmany_create, one pass of its loop with keep_stressing and the
\* time test true: the name, open, and what follows open
DCreateOpen(r) ==
    /\ d_pc = "create"
    /\ d_keep
    /\ d_i_end - d_i_start < MaxFiles
    /\ r \in OpenResults(d_filename_len, d_fit)
    /\ CASE r = "ENAMETOOLONG" ->
              /\ d_filename_len' = d_filename_len - 1
              /\ d_max_len' = d_filename_len - 1
              /\ UNCHANGED <<d_pc, d_i_end, d_i, d_files, d_created>>
         [] r = "error" ->
              /\ d_pc' = "remove"
              /\ d_i' = d_i_start
              /\ d_filename_len' = remove_first_len
              /\ UNCHANGED <<d_max_len, d_i_end, d_files, d_created>>
         [] r = "fd" ->
              /\ d_files' = d_files \cup
                     {stress_dirmany_filename(d_filename_len, d_i_end)}
              /\ d_created' = d_created \cup
                     {stress_dirmany_filename(d_filename_len, d_i_end)}
              /\ d_filename_len' = NextLen(d_filename_len, d_max_len)
              /\ d_i_end' = d_i_end + 1
              /\ UNCHANGED <<d_pc, d_i, d_max_len>>
    /\ UNCHANGED <<d_keep, d_fit, d_i_start, d_removed, d_iter>>
    /\ DFrame

\* the loop of stress_dirmany_create ends on keep_stressing or on the
\* time; return i_end, and stress_dirmany_remove starts
DCreateEnd ==
    /\ d_pc = "create"
    /\ d_pc' = "remove"
    /\ d_i' = d_i_start
    /\ d_filename_len' = remove_first_len
    /\ UNCHANGED <<d_keep, d_fit, d_i_start, d_i_end, d_max_len, d_files,
                   d_created, d_removed, d_iter>>
    /\ DFrame

\* stress_dirmany_remove, one pass of its loop: the name and shim_unlink
DRemoveStep ==
    /\ d_pc = "remove"
    /\ d_i < d_i_end
    /\ d_files' = d_files \ {stress_dirmany_filename(d_filename_len, d_i)}
    /\ d_removed' = d_removed \cup
           {stress_dirmany_filename(d_filename_len, d_i)}
    /\ d_filename_len' = NextLen(d_filename_len, d_max_len)
    /\ d_i' = d_i + 1
    /\ UNCHANGED <<d_pc, d_keep, d_fit, d_i_start, d_i_end, d_max_len,
                   d_created, d_iter>>
    /\ DFrame

\* stress_dirmany_remove returns; i_start = i_end
DRemoveEnd ==
    /\ d_pc = "remove"
    /\ d_i >= d_i_end
    /\ d_i_start' = d_i_end
    /\ d_pc' = "cond"
    /\ d_iter' = d_iter + 1
    /\ UNCHANGED <<d_keep, d_fit, d_i_end, d_i, d_filename_len, d_max_len,
                   d_files, d_created, d_removed>>
    /\ DFrame

\* } while (keep_stressing(args)); the next call of stress_dirmany_create
\* starts with filename_len = 1 and *max_len = 256
DLoopCond ==
    /\ d_pc = "cond"
    /\ IF d_keep
          THEN /\ d_iter < MaxIter
               /\ d_pc' = "create"
               /\ d_filename_len' = 1
               /\ d_max_len' = MaxLen
               /\ d_created' = {}
               /\ d_removed' = {}
          ELSE /\ d_pc' = "done"
               /\ UNCHANGED <<d_filename_len, d_max_len, d_created, d_removed>>
    /\ UNCHANGED <<d_keep, d_fit, d_i_start, d_i_end, d_i, d_files, d_iter>>
    /\ DFrame

\* the stop condition fires
DStop ==
    /\ d_keep
    /\ d_pc # "done"
    /\ d_keep' = FALSE
    /\ UNCHANGED <<d_pc, d_fit, d_i_start, d_i_end, d_i, d_filename_len,
                   d_max_len, d_files, d_created, d_removed, d_iter>>
    /\ DFrame

DNext ==
    \/ \E r \in {"fd", "error", "ENAMETOOLONG"} : DCreateOpen(r)
    \/ DCreateEnd
    \/ DRemoveStep
    \/ DRemoveEnd
    \/ DLoopCond
    \/ DStop

SpecDirmany == DInit /\ [][DNext]_vars

\* C34 as claimed: when the remove phase of an outer iteration has ended,
\* it has unlinked exactly the names the create phase of that iteration
\* created (same number and same padding for every index, also after
\* ENAMETOOLONG has lowered max_len), and no created file is left.
C34_Claim ==
    d_pc \in {"cond", "done"} =>
        /\ d_removed = d_created
        /\ d_files = {}

\* ----------------------------------------------------------------------
\* Properties of stress-misaligned.c
\* ----------------------------------------------------------------------

\* the entry whose routine is executing when mpc = "in_func"
Running == IF misaligned_method = 0 THEN info ELSE misaligned_method

\* a trapped fault: the only step that leaves a routine for the loop top
FaultStep == mpc = "in_func" /\ mpc' = "top"

\* C4: a fault trapped while a sub-method runs under "all" disables exactly
\* that sub-method, control is back in front of the dispatch loop with the
\* worker still running, and while a sub-method is still enabled one of the
\* enabled sub-methods is run next.
C4_FaultContained ==
    /\ [][(misaligned_method = 0 /\ FaultStep) =>
            /\ current_method = Running
            /\ current_method \in SubMethods
            /\ disabled' = [disabled EXCEPT ![current_method] = TRUE]
            /\ exercised' = exercised
            /\ mpc' = "top"]_vars
    /\ ((/\ misaligned_method = 0
         /\ mpc = "top"
         /\ handled_signum # NoSignal
         /\ \E i \in SubMethods : ~disabled[i])
        ~> (mpc = "in_func" /\ ~disabled[Running]))

C4_Witness ==
    /\ misaligned_method = 0
    /\ handled_signum # NoSignal
    /\ mpc = "in_func"
    /\ \E i \in SubMethods : disabled[i]
    /\ ~disabled[Running]

\* C5: a disabled sub-method stays disabled and its routine is never
\* entered again.
C5_DisabledPermanent ==
    [][\A i \in SubMethods :
         disabled[i] =>
            /\ disabled'[i]
            /\ ~(mpc # "in_func" /\ mpc' = "in_func" /\ Running' = i)]_vars

C5_Witness ==
    /\ misaligned_method = 0
    /\ mpc = "in_func"
    /\ \E i \in SubMethods : disabled[i] /\ i < Running

\* C6 as claimed: at the end of the run no sub-method is both disabled and
\* exercised (or listed by the report).
C6_Claim ==
    mpc = "done" =>
        \A i \in SubMethods : disabled[i] => (~exercised[i] /\ i \notin reported)

\* C6 as amended: a sub-method that was disabled by a fault without ever
\* having returned normally is not exercised and not listed by the report;
\* one that is disabled and listed did return normally before it faulted.
C6_Amended ==
    mpc = "done" =>
        \A i \in SubMethods :
            /\ (disabled[i] /\ i \notin returned)
                  => (~exercised[i] /\ i \notin reported)
            /\ (disabled[i] /\ i \in reported) => i \in returned

C6_Witness ==
    /\ mpc = "done"
    /\ \E i \in SubMethods : disabled[i] /\ i \notin returned /\ i \notin reported
    /\ \E j \in SubMethods : disabled[j] /\ j \in returned /\ j \in reported

\* C7 as claimed: after a pass of "all" that found every sub-method
\* disabled, the "all" entry is disabled (so that the loop ends with
\* EXIT_NO_RESOURCE on its next entry).
C7_Claim ==
    (/\ misaligned_method = 0
     /\ mpc \in {"ret", "cond"}
     /\ \A i \in SubMethods : disabled[i])
        => disabled[0]

\* C8: with one named method configured, a fault of that method disables
\* it, its routine is not entered again, the loop ends on its next entry
\* and the result is EXIT_NO_RESOURCE.
C8_SingleFault ==
    (misaligned_method \in SubMethods /\ disabled[misaligned_method]) =>
        /\ mpc \in {"top", "exit", "done"}
        /\ mpc \in {"exit", "done"} => mrc = EXIT_NO_RESOURCE

C8_Witness ==
    /\ misaligned_method \in SubMethods
    /\ disabled[misaligned_method]
    /\ handled_signum # NoSignal
    /\ mpc = "done"
    /\ mrc = EXIT_NO_RESOURCE

\* C9: the handler disables a sub-method entry, never entry 0; entry 0 is
\* disabled only by the tail of stress_misaligned_all after a pass in which
\* no child ran.
C9_AllNotDisabledByFault ==
    [][/\ FaultStep => (current_method \in SubMethods /\ disabled'[0] = disabled[0])
       /\ (~disabled[0] /\ disabled'[0]) =>
             (mpc = "all_loop" /\ info > NumSub /\ ~pass_ran)]_vars

C9_Witness ==
    /\ disabled[0]
    /\ handled_signum # NoSignal
    /\ \A i \in SubMethods : disabled[i]

====
